---- MODULE Spec2Model ----
(***************************************************************************)
(* Model of the multi-provider extraction pipeline of the tax filer:       *)
(* RAGExtractor (provider initialisation, provider fall-back loop, the     *)
(* response recovery parser, the format normaliser, cross-validation and   *)
(* soft constraints) and the RAGExtractorService wrapper around it.        *)
(***************************************************************************)
EXTENDS Integers, Sequences, FiniteSets, TLC

(***************************************************************************)
(* JavaScript values.  Every value is a record of the same three fields so *)
(* that two values of different JavaScript types can be compared.          *)
(*   t = "number"    finite number n                                       *)
(*   t = "nan"       NaN                                                   *)
(*   t = "inf"       Infinity (n = 1) or -Infinity (n = -1)                *)
(*   t = "string"    the string s                                          *)
(*   t = "undefined", "null"                                               *)
(*   t = "object"    some nested object                                    *)
(*   t = "absent"    marks a key an object does not have                   *)
(***************************************************************************)
Num(n) == [t |-> "number", n |-> n, s |-> ""]
Str(s) == [t |-> "string", n |-> 0, s |-> s]
NaN == [t |-> "nan", n |-> 0, s |-> ""]
Infinity == [t |-> "inf", n |-> 1, s |-> ""]
NegInfinity == [t |-> "inf", n |-> -1, s |-> ""]
Undefined == [t |-> "undefined", n |-> 0, s |-> ""]
Null == [t |-> "null", n |-> 0, s |-> ""]
SomeObject == [t |-> "object", n |-> 0, s |-> ""]
Absent == [t |-> "absent", n |-> 0, s |-> ""]

\* typeof v === 'number'
IsNumberType(v) == v.t \in {"number", "nan", "inf"}
\* Number.isFinite(v), for a value of any type
IsFiniteNumber(v) == v.t = "number"
\* a value read from a key the object does not have is undefined
Read(v) == IF v.t = "absent" THEN Undefined ELSE v
\* a value that is neither undefined nor null nor a missing key
IsDefined(v) == v.t \notin {"undefined", "null", "absent"}

\* ToBoolean
Truthy(v) ==
    CASE v.t = "number" -> v.n # 0
      [] v.t = "string" -> v.s # ""
      [] v.t \in {"inf", "object"} -> TRUE
      [] OTHER -> FALSE

\* a || b
OrElse(a, b) == IF Truthy(a) THEN a ELSE b

\* The decimal strings the sampled inputs hold; every other string is not a
\* numeral and converts to NaN.
NumeralValue(s) ==
    CASE s = "500" -> Num(500)
      [] s = "" -> Num(0)
      [] OTHER -> NaN

\* ToNumber
ToNumber(v) ==
    CASE IsNumberType(v) -> v
      [] v.t = "string" -> NumeralValue(v.s)
      [] v.t = "null" -> Num(0)
      [] OTHER -> NaN

\* -a for a number a
NegNum(a) ==
    CASE a.t = "number" -> Num(0 - a.n)
      [] a.t = "inf" -> [a EXCEPT !.n = 0 - a.n]
      [] OTHER -> NaN

\* a + b for numbers a and b
AddNum(a, b) ==
    CASE a.t = "nan" \/ b.t = "nan" -> NaN
      [] a.t = "inf" /\ b.t = "inf" -> IF a.n = b.n THEN a ELSE NaN
      [] a.t = "inf" -> a
      [] b.t = "inf" -> b
      [] OTHER -> Num(a.n + b.n)

\* a - b with the operands converted to numbers, as the - operator does
Minus(a, b) == AddNum(ToNumber(a), NegNum(ToNumber(b)))

\* Math.abs(a) for a number a
AbsNum(a) ==
    CASE a.t = "number" -> Num(IF a.n < 0 THEN 0 - a.n ELSE a.n)
      [] a.t = "inf" -> Infinity
      [] OTHER -> NaN

\* a > b for numbers a and b (false when either is NaN)
GreaterNum(a, b) ==
    CASE a.t = "nan" \/ b.t = "nan" -> FALSE
      [] a.t = "inf" /\ b.t = "inf" -> a.n > b.n
      [] a.t = "inf" -> a.n > 0
      [] b.t = "inf" -> b.n < 0
      [] OTHER -> a.n > b.n

\* a === b
StrictEq(a, b) == a.t # "nan" /\ a.t # "object" /\ a = b

(***************************************************************************)
(* Texts.  A document text or a raw model response is a sequence of        *)
(* tokens: a decimal digit, one of the characters - , ( ) & and the blank  *)
(* and newline, or a whole word or phrase of letters.  A regular           *)
(* expression of the source is modelled by what it matches on such a       *)
(* sequence.  The sampled texts hold no decimal point, no exponent and no  *)
(* currency sign.                                                          *)
(***************************************************************************)
Digits == {"0", "1", "2", "3", "4", "5", "6", "7", "8", "9"}
DigitValue(d) ==
    CASE d = "0" -> 0 [] d = "1" -> 1 [] d = "2" -> 2 [] d = "3" -> 3
      [] d = "4" -> 4 [] d = "5" -> 5 [] d = "6" -> 6 [] d = "7" -> 7
      [] d = "8" -> 8 [] d = "9" -> 9
\* the character class [-\d,()]
AmountChars == Digits \cup {"-", ",", "(", ")"}
\* \s
Whitespace == {" ", "\n"}

Max(S) == CHOOSE x \in S : \A y \in S : y <= x
Min(S) == CHOOSE x \in S : \A y \in S : x <= y

\* str.replace(/<chars>/g, '')
Without(seq, chars) == SelectSeq(seq, LAMBDA c : c \notin chars)

RECURSIVE DigitsToNat(_)
DigitsToNat(ds) ==
    IF ds = <<>> THEN 0
    ELSE 10 * DigitsToNat(SubSeq(ds, 1, Len(ds) - 1)) + DigitValue(ds[Len(ds)])

\* the longest prefix of seq from position k on whose tokens are all in chars
RunFrom(seq, k, chars) ==
    LET stop == {i \in k..Len(seq) : seq[i] \notin chars}
        last == IF stop = {} THEN Len(seq) ELSE Min(stop) - 1
    IN  SubSeq(seq, k, last)

\* parseFloat: an optional sign, then the longest run of digits; NaN when
\* there is no digit there
ParseFloat(seq) ==
    LET neg == seq # <<>> /\ seq[1] = "-"
        ds == RunFrom(seq, IF neg THEN 2 ELSE 1, Digits)
    IN  IF ds = <<>> THEN NaN
        ELSE IF neg THEN Num(0 - DigitsToNat(ds)) ELSE Num(DigitsToNat(ds))

\* parseInt(str, 10) of a run of digits
ParseInt(seq) == ParseFloat(seq)

\* The capture of /<label>[^\d]+([-\d,()]+)/ tried at the label at position
\* i, <<>> when it does not match there.  [^\d]+ is greedy: it runs to the
\* next digit, and the capture starts at that digit.  When no digit follows
\* it gives back tokens from the end of the text until the capture can
\* start at a token of [-,()].
CaptureAt(text, i) ==
    LET gap == RunFrom(text, i + 1, (Digits \cup {text[k] : k \in 1..Len(text)}) \ Digits)
        j == i + Len(gap)
        back == {g \in (i + 2)..Len(text) : text[g] \in AmountChars}
    IN  IF gap = <<>> THEN <<>>
        ELSE IF j < Len(text) THEN RunFrom(text, j + 1, AmountChars)
        ELSE IF back = {} THEN <<>>
        ELSE RunFrom(text, Max(back), AmountChars)

\* content.match(/<label>[^\d]+([-\d,()]+)/i)[1] for a label that is one of
\* the phrases in labels; <<>> stands for a null match
FirstCapture(captures) ==
    LET hits == {i \in 1..Len(captures) : captures[i] # <<>>}
    IN  IF hits = {} THEN <<>> ELSE captures[Min(hits)]

LabelCapture(text, labels) ==
    FirstCapture([i \in 1..Len(text) |->
                     IF text[i] \in labels THEN CaptureAt(text, i) ELSE <<>>])

\* parseAmount of a match whose capture is cap
parseAmount(cap) ==
    LET numStr == Without(cap, {","})
    IN  IF cap = <<>> THEN Num(0)
        ELSE IF \E i \in 1..Len(numStr) : numStr[i] = "("
                /\ \E k \in 1..Len(numStr) : numStr[k] = ")"
             THEN NegNum(ParseFloat(Without(numStr, {"(", ")"})))
        ELSE ParseFloat(numStr)

\* new Date().getFullYear()
CurrentYear == 2026

\* the phrases the amount patterns of extractTaxAmounts look for
RevenueLabels == {"Revenue"}
OtherIncomeLabels == {"Other income"}
GeneralExpensesLabels == {"General expenses", "Operating expenses"}
CostOfSalesLabels == {"Cost of sales"}
DirectExpensesLabels == {"Direct expenses"}
CapitalAllowancesLabels == {"Capital allowances"}
DepreciationLabels == {"Depreciation"}
TaxReliefLabels == {"Tax relief"}
AllowableDeductionsLabels == {"Allowable deductions"}
ProfitBeforeTaxLabels == {"Profit before tax"}

\* extractTaxAmounts(content): the four amounts found by the label patterns
LabelFamilies ==
    [revenue |-> RevenueLabels, otherIncome |-> OtherIncomeLabels,
     generalExpenses |-> GeneralExpensesLabels, costOfSales |-> CostOfSalesLabels,
     directExpenses |-> DirectExpensesLabels,
     capitalAllowances |-> CapitalAllowancesLabels, depreciation |-> DepreciationLabels,
     taxRelief |-> TaxReliefLabels, allowableDeductions |-> AllowableDeductionsLabels,
     profitBeforeTax |-> ProfitBeforeTaxLabels]

\* the sums extractTaxAmounts makes of parseAmount(match) over its patterns,
\* and its fill-in of the taxable amount
SumTaxAmounts(amount) ==
    LET totalIncome == AddNum(amount.revenue, amount.otherIncome)
        totalExpenses ==
            AddNum(AddNum(AddNum(Num(0), amount.generalExpenses), amount.costOfSales),
                   amount.directExpenses)
        totalDeductions ==
            AddNum(AddNum(AddNum(AddNum(Num(0), amount.capitalAllowances),
                                 amount.depreciation),
                          amount.taxRelief),
                   amount.allowableDeductions)
    IN  [totalIncome |-> totalIncome,
         totalExpenses |-> totalExpenses,
         totalDeductions |-> totalDeductions,
         taxableAmount |->
             IF StrictEq(amount.profitBeforeTax, Num(0))
             THEN Minus(Minus(totalIncome, totalExpenses), totalDeductions)
             ELSE amount.profitBeforeTax]

extractTaxAmounts(content) ==
    SumTaxAmounts([family \in DOMAIN LabelFamilies |->
                      parseAmount(LabelCapture(content, LabelFamilies[family]))])

\* extractYearFromText(text): the first 20dd in the text, else the current year
extractYearFromText(text) ==
    LET hits == {i \in 1..(Len(text) - 3) :
                    /\ text[i] = "2" /\ text[i + 1] = "0"
                    /\ text[i + 2] \in Digits /\ text[i + 3] \in Digits}
    IN  IF hits = {} THEN Num(CurrentYear)
        ELSE ParseInt(SubSeq(text, Min(hits), Min(hits) + 3))

\* text.split('\n')
RECURSIVE SplitLines(_)
SplitLines(text) ==
    LET nl == {i \in 1..Len(text) : text[i] = "\n"}
    IN  IF nl = {} THEN <<text>>
        ELSE <<SubSeq(text, 1, Min(nl) - 1)>>
             \o SplitLines(SubSeq(text, Min(nl) + 1, Len(text)))

\* line.trim()
RECURSIVE Trim(_)
Trim(line) ==
    IF line = <<>> THEN line
    ELSE IF line[1] \in Whitespace THEN Trim(Tail(line))
    ELSE IF line[Len(line)] \in Whitespace THEN Trim(SubSeq(line, 1, Len(line) - 1))
    ELSE line

\* the string a sequence of tokens spells
RECURSIVE Spell(_)
Spell(line) == IF line = <<>> THEN "" ELSE Head(line) \o Spell(Tail(line))

\* str.includes(sub)
Includes(str, sub) ==
    \E i \in 1..(Len(str) - Len(sub) + 1) : SubSeq(str, i, i + Len(sub) - 1) = sub

\* the tokens that hold no word character (\W)
NonWordTokens ==
    Whitespace \cup {"-", ",", "(", ")", "&", "{", "}", "[", "]", ":", "\"", "'", "<fence>json", "<fence>"}
\* the spellings of LIMITED in the sampled texts (the patterns ignore case)
LimitedWords == {"LIMITED", "Limited"}
\* the words of capital letters, [A-Z]+, of the sampled texts
UpperWords == {"ACME", "CACHE", "TECHNOLOGY", "TRADING", "COMPANY", "LIMITED", "LTD"}
\* (?:COMPANY|LIMITED|LTD|INC|CORP)
CompanySuffixes == {"COMPANY", "LIMITED", "LTD", "INC", "CORP"}

\* /\b\w+.*LIMITED\b/i.test(line): the position of the first LIMITED that
\* follows a word of the line, 0 when there is none
LimitedIndex(line) ==
    LET hits == {k \in 2..Len(line) :
                    /\ line[k] \in LimitedWords
                    /\ \E w \in 1..(k - 1) : line[w] \notin NonWordTokens}
    IN  IF hits = {} THEN 0 ELSE Min(hits)

\* the first line, trimmed, that holds a word followed by LIMITED; <<>> if none
LimitedLine(text) ==
    LET lines == SplitLines(text)
        hits == {i \in 1..Len(lines) : LimitedIndex(Trim(lines[i])) > 0}
    IN  IF hits = {} THEN <<>> ELSE Trim(lines[Min(hits)])

\* the business type the name of a company is taken to show
InferBusinessType(name, otherwise) ==
    IF Includes(name, "TECHNOLOGY") \/ Includes(name, "TECH")
       \/ Includes(name, "SOFTWARE") \/ Includes(name, "IT")
    THEN "Technology"
    ELSE IF Includes(name, "TRADING") \/ Includes(name, "TRADE") THEN "Trading"
    ELSE IF Includes(name, "CONSTRUCTION") \/ Includes(name, "BUILD")
    THEN "Construction"
    ELSE otherwise

\* text.match(/^([A-Z][A-Z\s&]+(?:COMPANY|LIMITED|LTD|INC|CORP))/m)[1]: from
\* the first line start where it matches, capital words, blanks, newlines
\* and & up to the last company suffix among them; <<>> for no match
CompanyPatternMatch(text) ==
    LET run(p) == RunFrom(text, p, UpperWords \cup Whitespace \cup {"&"})
        ends(p) == {q \in 2..Len(run(p)) : run(p)[q] \in CompanySuffixes}
        starts == {p \in 1..Len(text) :
                      /\ p = 1 \/ text[p - 1] = "\n"
                      /\ text[p] \in UpperWords
                      /\ ends(p) # {}}
    IN  IF starts = {} THEN <<>>
        ELSE SubSeq(run(Min(starts)), 1, Max(ends(Min(starts))))

\* extractCompanyInfo(text)
CompanyInfoFrom(line, match) ==
    IF line # <<>>
    THEN [name |-> Spell(line),
          type |-> Spell(Trim(SubSeq(line, 1, LimitedIndex(line) - 1)))]
    ELSE IF match # <<>>
    THEN [name |-> Spell(Trim(match)),
          type |-> InferBusinessType(Spell(Trim(match)), "Not provided")]
    ELSE [name |-> "Not provided", type |-> "Not provided"]

extractCompanyInfo(text) == CompanyInfoFrom(LimitedLine(text), CompanyPatternMatch(text))

\* the tokens of the line that starts at position k, up to its newline
RestOfLine(text, k) == RunFrom(text, k, {text[i] : i \in 1..Len(text)} \ {"\n"})

\* text.match(/<head>.*<link>\s+(.+)/i)[1]: after the first head, the last
\* link of that line that is followed by white space and then by something;
\* <<>> for no match
HeaderAfter(text, head, link) ==
    LET cap(f) == RestOfLine(text, f + 1 + Len(RunFrom(text, f + 1, Whitespace)))
        links(i) == {f \in (i + 1)..(i + Len(RestOfLine(text, i)) - 1) :
                        /\ text[f] = link
                        /\ RunFrom(text, f + 1, Whitespace) # <<>>
                        /\ cap(f) # <<>>}
        heads == {i \in 1..Len(text) : text[i] = head /\ links(i) # {}}
    IN  IF heads = {} THEN <<>> ELSE cap(Max(links(Min(heads))))

\* text.match(/(.+)\s+<head>/i)[1]: what stands on the line before the white
\* space in front of head; <<>> for no match
HeaderBefore(text, head) ==
    LET lineStart(k) == Max({p \in 1..k : p = 1 \/ text[p - 1] = "\n"})
        wsStart(k) == Min({p \in 1..k : \A q \in p..(k - 1) : text[q] \in Whitespace})
        cap(k) == IF wsStart(k) = 1 THEN <<>>
                  ELSE SubSeq(text, lineStart(wsStart(k) - 1), wsStart(k) - 1)
        hits == {k \in 2..Len(text) :
                    text[k] = head /\ wsStart(k) < k /\ cap(k) # <<>>}
    IN  IF hits = {} THEN <<>> ELSE cap(Min(hits))

\* the header patterns of extractCompanyDetails, in their order
HeaderCaptures(text) ==
    <<HeaderAfter(text, "Statement of", "for"),
      HeaderAfter(text, "Financial Statements", "of"),
      HeaderBefore(text, "Financial Statements")>>

\* RAGExtractor.extractCompanyDetails(documentText)
CompanyDetailsFrom(line, match, caps) ==
    LET fits == {i \in 1..Len(caps) :
                    /\ caps[i] # <<>>
                    /\ Len(Spell(Trim(caps[i]))) > 3
                    /\ Len(Spell(Trim(caps[i]))) < 100}
    IN  IF line # <<>>
        THEN [companyName |-> Spell(line),
              businessType |-> Spell(Trim(SubSeq(line, 1, LimitedIndex(line) - 1)))]
        ELSE IF match # <<>>
        THEN [companyName |-> Spell(Trim(match)),
              businessType |-> InferBusinessType(Spell(Trim(match)), "Not provided")]
        ELSE IF fits # {}
        THEN [companyName |-> Spell(Trim(caps[Min(fits)])),
              businessType |-> "Not provided"]
        ELSE [companyName |-> "Not provided", businessType |-> "Not provided"]

extractCompanyDetails(documentText) ==
    CompanyDetailsFrom(LimitedLine(documentText), CompanyPatternMatch(documentText),
                       HeaderCaptures(documentText))

\* RAGExtractor.extractTaxYear(documentText)
extractTaxYear(documentText) == extractYearFromText(documentText)

\* The patterns parseSimplifiedResponse hands to extractAmountFromText, by
\* name, and the words of the sampled texts each of them matches.
PatternWords(pattern) ==
    CASE pattern = "revenue" ->
             {"Revenue", "revenue", "Sales", "sales", "Turnover", "turnover"}
      [] pattern = "expenses" -> {"Expenses", "expenses", "Costs", "costs"}
      [] pattern = "profit" -> {"Profit before tax", "profit before tax"}
      [] pattern = "deductions" ->
             {"Capital allowances", "Capital Allowances", "capital allowances",
              "Deductions", "deductions"}

\* pattern.test(line)
PatternTest(pattern, line) ==
    \E k \in 1..Len(line) : \E w \in PatternWords(pattern) : Includes(line[k], w)

\* line.match(/\(\s*([\d,]+)\s*\)/)[1]: the first parenthesized number
ParenNumber(line) ==
    LET num(k) == RunFrom(line, k + 1 + Len(RunFrom(line, k + 1, Whitespace)),
                          Digits \cup {","})
        close(k) == k + 1 + Len(RunFrom(line, k + 1, Whitespace)) + Len(num(k))
        hits == {k \in 1..Len(line) :
                    /\ line[k] = "("
                    /\ num(k) # <<>>
                    /\ LET c == close(k) + Len(RunFrom(line, close(k), Whitespace))
                       IN  c <= Len(line) /\ line[c] = ")"}
    IN  IF hits = {} THEN <<>> ELSE num(Min(hits))

\* line.match(/([\d,]+)/)[1]: the first run of digits and commas
PlainNumber(line) ==
    LET hits == {k \in 1..Len(line) : line[k] \in Digits \cup {","}}
    IN  IF hits = {} THEN <<>> ELSE RunFrom(line, Min(hits), Digits \cup {","})

\* The amount the number patterns give on one line, tried in their order
\* (parenthesized first), NaN standing for none: an amount is taken only
\* when it is a number other than 0.
LineAmountFrom(paren, plain) ==
    LET neg == NegNum(AbsNum(ParseFloat(Without(paren, {","}))))
        pos == ParseFloat(Without(plain, {","}))
    IN  IF paren # <<>> /\ neg.t = "number" /\ neg.n # 0 THEN neg
        ELSE IF plain # <<>> /\ pos.t = "number" /\ pos.n # 0 THEN pos
        ELSE NaN

LineAmount(line) == LineAmountFrom(ParenNumber(line), PlainNumber(line))

\* the capture of (\d{1,3}(?:,\d{3})*) tried at position k
RECURSIVE ThousandsGroups(_, _)
ThousandsGroups(text, k) ==
    IF /\ k + 3 <= Len(text)
       /\ text[k] = ","
       /\ \A d \in 1..3 : text[k + d] \in Digits
    THEN SubSeq(text, k, k + 3) \o ThousandsGroups(text, k + 4)
    ELSE <<>>

ThousandsNumber(text, k) ==
    LET run == RunFrom(text, k, Digits)
        head == SubSeq(run, 1, IF Len(run) > 3 THEN 3 ELSE Len(run))
    IN  IF head = <<>> THEN <<>> ELSE head \o ThousandsGroups(text, k + Len(head))

\* text.match(/<label>\s+(\d{1,3}(?:,\d{3})*)/i)[1], and with paren the
\* pattern /<label>\s+\((\d{1,3}(?:,\d{3})*)\)/i; <<>> for no match
AfterLabel(text, labels, paren) ==
    LET at(i) == i + 1 + Len(RunFrom(text, i + 1, Whitespace))
        num(i) == IF paren
                  THEN IF at(i) <= Len(text) /\ text[at(i)] = "("
                       THEN ThousandsNumber(text, at(i) + 1) ELSE <<>>
                  ELSE ThousandsNumber(text, at(i))
        closed(i) == LET c == at(i) + 1 + Len(num(i))
                     IN  c <= Len(text) /\ text[c] = ")"
        hits == {i \in 1..Len(text) :
                    /\ text[i] \in labels
                    /\ at(i) > i + 1
                    /\ num(i) # <<>>
                    /\ paren => closed(i)}
    IN  IF hits = {} THEN <<>> ELSE num(Min(hits))

\* text.match(/Profit.*before.*tax.*\((\d{1,3}(?:,\d{3})*)\)/i)[1]: the last
\* parenthesized number on the line of the first such label
LabelThenParen(text, labels) ==
    LET opens(i) == {k \in (i + 1)..(i + Len(RestOfLine(text, i)) - 1) :
                        /\ text[k] = "("
                        /\ ThousandsNumber(text, k + 1) # <<>>
                        /\ LET c == k + 1 + Len(ThousandsNumber(text, k + 1))
                           IN  c <= Len(text) /\ text[c] = ")"}
        hits == {i \in 1..Len(text) : text[i] \in labels /\ opens(i) # {}}
    IN  IF hits = {} THEN <<>>
        ELSE ThousandsNumber(text, Max(opens(Min(hits))) + 1)

\* The searches extractAmountFromText makes over the whole text once no line
\* gave an amount: the patterns of one family in their order, each with the
\* sign the code gives its capture.  The first that matches decides.
SpecificSearches(pattern) ==
    LET plain(labels) == [labels |-> labels, kind |-> "plain", neg |-> FALSE]
        inParen(labels, neg) == [labels |-> labels, kind |-> "paren", neg |-> neg]
    IN  CASE pattern = "revenue" ->
                 <<plain({"Revenue"}), plain({"Sales", "Cost of sales"}),
                   plain({"Turnover"})>>
          [] pattern = "profit" ->
                 <<inParen(ProfitBeforeTaxLabels, TRUE), plain(ProfitBeforeTaxLabels),
                   [labels |-> ProfitBeforeTaxLabels, kind |-> "line", neg |-> TRUE]>>
          [] pattern = "expenses" ->
                 <<inParen({"General administrative expenses"}, FALSE),
                   plain({"Operating expenses"}), plain({"Total"})>>
          [] pattern = "deductions" ->
                 <<inParen(CapitalAllowancesLabels, FALSE),
                   plain(CapitalAllowancesLabels), plain(DepreciationLabels)>>

\* text.match(...)[1] for one of the searches; <<>> for no match
SearchCapture(text, search) ==
    IF search.kind = "line" THEN LabelThenParen(text, search.labels)
    ELSE AfterLabel(text, search.labels, search.kind = "paren")

\* RAGExtractor.extractAmountFromText(text, pattern)
\* the amount of the first line that tests true and gives one; NaN for none
FirstAmount(amounts) ==
    LET found == {i \in 1..Len(amounts) : amounts[i].t = "number"}
    IN  IF found = {} THEN NaN ELSE amounts[Min(found)]

\* the amount of the first search that matched; 0 when none did
SearchedAmount(searches, caps) ==
    LET hits == {i \in 1..Len(caps) : caps[i] # <<>>}
    IN  IF hits = {} THEN Num(0)
        ELSE IF searches[Min(hits)].neg
        THEN NegNum(ParseFloat(Without(caps[Min(hits)], {","})))
        ELSE ParseFloat(Without(caps[Min(hits)], {","}))

AmountFrom(lineAmount, searched) ==
    IF lineAmount.t = "number" THEN lineAmount ELSE searched

LineAmounts(lines, pattern) ==
    [i \in 1..Len(lines) |->
        IF PatternTest(pattern, lines[i]) THEN LineAmount(lines[i]) ELSE NaN]

SearchCaptures(text, searches) ==
    [i \in 1..Len(searches) |-> SearchCapture(text, searches[i])]

extractAmountFromText(text, pattern) ==
    AmountFrom(FirstAmount(LineAmounts(SplitLines(text), pattern)),
               SearchedAmount(SpecificSearches(pattern),
                              SearchCaptures(text, SpecificSearches(pattern))))

(***************************************************************************)
(* Records.  ExtractedTaxData is a function from its eight keys, and from  *)
(* validationData where an enhanced object leaves it, to values.           *)
(***************************************************************************)
NumericFields == {"totalIncome", "totalExpenses", "totalDeductions", "taxableAmount"}
StringFields == {"taxpayerName", "taxId", "businessType"}
CanonicalFields == NumericFields \cup StringFields \cup {"taxYear"}
RecordKeys == CanonicalFields \cup {"validationData"}

\* an object literal of the eight fields
TaxData(name, year, income, expenses, deductions, taxable, id, type) ==
    [k \in RecordKeys |->
        CASE k = "taxpayerName" -> name
          [] k = "taxYear" -> year
          [] k = "totalIncome" -> income
          [] k = "totalExpenses" -> expenses
          [] k = "totalDeductions" -> deductions
          [] k = "taxableAmount" -> taxable
          [] k = "taxId" -> id
          [] k = "businessType" -> type
          [] OTHER -> Absent]

\* RAGExtractor.getDefaultTaxData()
getDefaultTaxData ==
    TaxData(Str("Not provided"), Num(CurrentYear), Num(0), Num(0), Num(0), Num(0),
            Str("Not provided"), Str("Not specified"))

\* RAGExtractorService.getDefaultTaxData()
ServiceDefaultTaxData ==
    TaxData(Str("Please enter manually"), Num(CurrentYear), Num(0), Num(0), Num(0),
            Num(0), Str("Please enter manually"), Str("Please specify"))

\* a negative amount reset as well
validateNonNegativeValue(value) ==
    IF IsFiniteNumber(value) /\ value.n >= 0 THEN value ELSE Num(0)

\* validateNumericValue(value)
validateNumericValue(value) == IF IsFiniteNumber(value) THEN value ELSE Num(0)

MAX_EXPENSE_RATIO == 5

\* the excess is taken off step by step instead of capped
validateExpensesRatioStepwise(expenses, income) ==
    IF income.n > 0 /\ expenses.n > income.n * 3
    THEN Num(expenses.n - income.n)
    ELSE expenses

\* the cap set at the threshold
validateExpensesRatioAtThreshold(expenses, income) ==
    IF income.n > 0 /\ expenses.n > income.n * 3
    THEN Num(income.n * 3)
    ELSE expenses

\* validateExpensesRatio(expenses, income), on finite numbers
validateExpensesRatio(expenses, income) ==
    IF income.n > 0 /\ expenses.n > income.n * 3
    THEN IF expenses.n < income.n * MAX_EXPENSE_RATIO
         THEN expenses ELSE Num(income.n * MAX_EXPENSE_RATIO)
    ELSE expenses

\* the residual replaces every taxable amount that differs significantly
validateTaxableAmountOverriding(taxableAmount, calculatedTaxable, totalIncome) ==
    LET taxableDifference == AbsNum(Minus(calculatedTaxable, taxableAmount)).n
    IN  IF taxableDifference > 1000 /\ taxableDifference * 10 > totalIncome.n
        THEN [value |-> calculatedTaxable, warning |-> TRUE]
        ELSE [value |-> taxableAmount, warning |-> FALSE]

\* validateTaxableAmount(taxableAmount, calculatedTaxable, totalIncome), on
\* finite numbers.  taxableDifference > Math.max(1000, totalIncome * 0.1) is
\* decided in whole numbers.
validateTaxableAmount(taxableAmount, calculatedTaxable, totalIncome) ==
    LET taxableDifference == AbsNum(Minus(calculatedTaxable, taxableAmount)).n
    IN  IF taxableDifference > 1000 /\ taxableDifference * 10 > totalIncome.n
        THEN IF taxableAmount.n = 0 /\ calculatedTaxable.n # 0
             THEN [value |-> calculatedTaxable, warning |-> TRUE]
             ELSE [value |-> taxableAmount, warning |-> TRUE]
        ELSE [value |-> taxableAmount, warning |-> FALSE]

\* RAGExtractor.applySoftConstraints(data); the warnings go to the console
applySoftConstraints(data) ==
    LET numeric == [k \in RecordKeys |->
                       IF k \in NumericFields
                       THEN validateNumericValue(Read(data[k])) ELSE data[k]]
        validatedExpenses ==
            validateExpensesRatio(numeric["totalExpenses"], numeric["totalIncome"])
        capped == [numeric EXCEPT !["totalExpenses"] = validatedExpenses]
        calculatedTaxable ==
            Minus(Minus(capped["totalIncome"], capped["totalExpenses"]),
                  capped["totalDeductions"])
        taxable == validateTaxableAmount(capped["taxableAmount"], calculatedTaxable,
                                         capped["totalIncome"])
    IN  IF taxable.warning
        THEN [capped EXCEPT !["taxableAmount"] = taxable.value]
        ELSE capped

(***************************************************************************)
(* Parsed model output.  What JSON.parse returns is a record of            *)
(*   jt         "falsy" (null, 0, "", false), "primitive" (any other       *)
(*              number, string or boolean), "array" or "object"            *)
(*   f          the flat keys of the object and their values               *)
(*   validationData, detailedBreakdown                                     *)
(*              st "absent", "null" or "object", and the nested values v   *)
(*   Profit_and_Loss                                                       *)
(*              st "absent", "array" or "other", and the array's items     *)
(*   Balance_Sheet  whether the key is there                               *)
(***************************************************************************)
SimplifiedFields ==
    {"Revenue", "Income", "Sales", "Turnover", "Expenses", "TotalExpenses",
     "ProfitBeforeTax", "Profit_Before_Tax", "Deductions", "CapitalAllowances"}
FlatFields == CanonicalFields \cup SimplifiedFields
ValidationFields ==
    {"revenue", "profitBeforeTax", "netProfitAfterTax", "retainedEarnings",
     "costOfSales", "operatingExpenses"}
BreakdownFields ==
    {"revenue", "generalAdminExpenses", "capitalAllowances", "depreciation",
     "profitBeforeTax", "chargeableIncome"}
ItemFields == {"Amount", "Expenses", "Cost", "Total_Income", "Total_Expenses"}

NoValidation == [st |-> "absent", v |-> [k \in ValidationFields |-> Absent]]
NoBreakdown == [st |-> "absent", v |-> [k \in BreakdownFields |-> Absent]]
NoStatement == [st |-> "absent", items |-> <<>>]

\* {}
EmptyObject ==
    [jt |-> "object",
     f |-> [k \in FlatFields |-> Absent],
     validationData |-> NoValidation,
     detailedBreakdown |-> NoBreakdown,
     Profit_and_Loss |-> NoStatement,
     Balance_Sheet |-> FALSE]

\* 'key' in data, for the keys the classification asks about
HasKey(data, key) ==
    CASE key = "validationData" -> data.validationData.st # "absent"
      [] key = "Profit_and_Loss" -> data.Profit_and_Loss.st # "absent"
      [] key = "Balance_Sheet" -> data.Balance_Sheet
      [] OTHER -> data.f[key].t # "absent"

\* a difference of exactly a tenth counts as well
RatioAtLeastTenth(a, b, c) ==
    LET diff == AbsNum(Minus(a, b))
    IN  CASE diff.t = "nan" -> FALSE
          [] diff.t = "inf" -> c.t = "number"
          [] c.t = "inf" -> FALSE
          [] OTHER -> diff.n * 10 >= c.n

\* |a - b| / c > 0.1 for numbers, c > 0
RatioOverTenth(a, b, c) ==
    LET diff == AbsNum(Minus(a, b))
    IN  CASE diff.t = "nan" -> FALSE
          [] diff.t = "inf" -> c.t = "number"
          [] c.t = "inf" -> FALSE
          [] OTHER -> diff.n * 10 > c.n

\* |a - b| / c > 0.2 for numbers, c > 0
RatioOverFifth(a, b, c) ==
    LET diff == AbsNum(Minus(a, b))
    IN  CASE diff.t = "nan" -> FALSE
          [] diff.t = "inf" -> c.t = "number"
          [] c.t = "inf" -> FALSE
          [] OTHER -> diff.n * 5 > c.n

\* a / b > 0.5 for finite numbers, b > 0
RatioOverHalf(a, b) ==
    CASE a.t = "nan" \/ b.t = "nan" -> FALSE
      [] a.t = "inf" -> b.t = "number" /\ a.n > 0
      [] b.t = "inf" -> FALSE
      [] OTHER -> a.n * 2 > b.n

\* RAGExtractor.performCrossValidation(validation, data): validation is the
\* nested object's values, data the record read from the parsed object
performCrossValidation(validation, data) ==
    LET vRevenue == Read(validation["revenue"])
        vProfit == Read(validation["profitBeforeTax"])
        vNet == Read(validation["netProfitAfterTax"])
        vRetained == Read(validation["retainedEarnings"])
        vCost == Read(validation["costOfSales"])
        income == Read(data["totalIncome"])
        taxable == Read(data["taxableAmount"])
        expenses == Read(data["totalExpenses"])
        zero == Num(0)
        correctedRevenue ==
            IF /\ Truthy(vRevenue) /\ ~StrictEq(vRevenue, income)
               /\ GreaterNum(ToNumber(vRevenue), zero)
               /\ \/ StrictEq(income, zero)
                  \/ RatioOverTenth(vRevenue, income, ToNumber(vRevenue))
            THEN vRevenue ELSE Null
        correctedProfitBeforeTax ==
            IF /\ Truthy(vProfit) /\ ~StrictEq(vProfit, taxable)
               /\ GreaterNum(AbsNum(Minus(vProfit, taxable)), Num(100))
            THEN vProfit ELSE Null
        revenue == OrElse(correctedRevenue, income)
        taxAmount == Minus(vProfit, vNet)
        grossWarning ==
            /\ GreaterNum(ToNumber(revenue), zero) /\ GreaterNum(ToNumber(expenses), zero)
            /\ Truthy(vCost)
            /\ RatioOverFifth(Minus(revenue, expenses), Minus(revenue, vCost),
                              ToNumber(revenue))
        retainedWarning ==
            /\ Truthy(vRetained) /\ Truthy(vNet)
            /\ GreaterNum(ToNumber(vRetained), zero)
            /\ ~GreaterNum(ToNumber(vNet), zero) /\ ToNumber(vNet).t # "nan"
        negativeTaxWarning ==
            /\ Truthy(vProfit) /\ Truthy(vNet) /\ GreaterNum(zero, taxAmount)
        highTaxWarning ==
            /\ Truthy(vProfit) /\ Truthy(vNet) /\ ~GreaterNum(zero, taxAmount)
            /\ GreaterNum(ToNumber(vProfit), zero)
            /\ RatioOverHalf(taxAmount, ToNumber(vProfit))
    IN  [correctedRevenue |-> correctedRevenue,
         correctedProfitBeforeTax |-> correctedProfitBeforeTax,
         corrections |->
             (IF correctedRevenue # Null THEN <<"Revenue corrected">> ELSE <<>>)
             \o (IF correctedProfitBeforeTax # Null
                 THEN <<"Profit Before Tax corrected">> ELSE <<>>),
         warnings |->
             (IF grossWarning THEN <<"Gross profit">> ELSE <<>>)
             \o (IF retainedWarning THEN <<"Retained earnings">> ELSE <<>>)
             \o (IF negativeTaxWarning THEN <<"Net profit exceeds">> ELSE <<>>)
             \o (IF highTaxWarning THEN <<"Tax rate high">> ELSE <<>>)]

\* { ...data }: the record the keys of a parsed object make, a missing key
\* staying missing
SpreadObject(data) ==
    [k \in RecordKeys |->
        IF k = "validationData"
        THEN (CASE data.validationData.st = "absent" -> Absent
                [] data.validationData.st = "null" -> Null
                [] OTHER -> SomeObject)
        ELSE data.f[k]]

\* the second correction left out
ApplyRevenueCorrection(data, spread, results) ==
    IF data.validationData.st = "object" /\ results.correctedRevenue # Null
    THEN [spread EXCEPT !["totalIncome"] = results.correctedRevenue]
    ELSE spread

\* RAGExtractor.validateExtractedData(data)
ApplyCorrections(data, spread, results) ==
    LET revenueApplied ==
            IF results.correctedRevenue # Null
            THEN [spread EXCEPT !["totalIncome"] = results.correctedRevenue]
            ELSE spread
    IN  IF data.validationData.st # "object" THEN spread
        ELSE IF results.correctedProfitBeforeTax # Null
        THEN [revenueApplied EXCEPT
                 !["taxableAmount"] = results.correctedProfitBeforeTax]
        ELSE revenueApplied

\* the delete left out
KeepingValidationData(data) == data

\* delete validatedData.validationData
WithoutValidationData(data) == [data EXCEPT !["validationData"] = Absent]

validateExtractedData(data) ==
    WithoutValidationData(applySoftConstraints(
        ApplyCorrections(data, SpreadObject(data),
                         performCrossValidation(data.validationData.v,
                                                SpreadObject(data)))))

\* What a call gives: the value it returns, or that it threw.
Return(d) == [threw |-> FALSE, data |-> d]
Throw == [threw |-> TRUE, data |-> getDefaultTaxData]

\* accountPattern.test(item.Account) for the four patterns of
\* extractFinancialData, by name; an Account that is no string matches none
AccountTest(pattern, account) ==
    LET has(words) == \E w \in words : Includes(account.s, w)
        qualifier == {"General", "general", "Administrative", "administrative",
                      "Operating", "operating", "Total", "total"}
    IN  /\ account.t = "string"
        /\ CASE pattern = "revenue" ->
                    has({"Revenue", "revenue", "Income", "income", "Sales", "sales",
                         "Turnover", "turnover"})
             [] pattern = "expenses" ->
                    has(qualifier) /\ has({"Expense", "expense"})
             [] pattern = "profitBeforeTax" ->
                    /\ has({"Profit", "profit", "Income", "income"})
                    /\ has({"before", "Before"}) /\ has({"tax", "Tax"})
             [] pattern = "deductions" ->
                    \/ has({"Capital", "capital"}) /\ has({"llowance"})
                    \/ has({"Depreciation", "depreciation", "Deduction", "deduction"})
                    \/ has({"Tax", "tax"}) /\ has({"relief", "Relief"})

\* RAGExtractor.findFinancialItem(items, accountPattern, propertyNames): a
\* number, or the mark that reading item.Account of a null item threw
Thrown == [t |-> "throw", n |-> 0, s |-> ""]
findFinancialItem(items, accountPattern, propertyNames) ==
    LET matching == {i \in 1..Len(items) :
                        ~items[i].isNull /\ AccountTest(accountPattern, items[i].Account)}
        nulls == {i \in 1..Len(items) : items[i].isNull}
        first == IF matching = {} THEN Len(items) + 1 ELSE Min(matching)
        usable == {p \in 1..Len(propertyNames) :
                      LET value == items[first].v[propertyNames[p]]
                      IN  IsNumberType(value) /\ value.t # "nan"}
    IN  IF \E i \in nulls : i < first THEN Thrown
        ELSE IF matching = {} \/ usable = {} THEN Num(0)
        ELSE items[first].v[propertyNames[Min(usable)]]

\* RAGExtractor.extractFinancialData(data); retainedEarnings is read with ?.
\* and is not part of any record
extractFinancialData(data) ==
    LET profitAndLoss ==
            IF data.Profit_and_Loss.st = "array" THEN data.Profit_and_Loss.items ELSE <<>>
    IN  [revenue |-> findFinancialItem(profitAndLoss, "revenue",
                                       <<"Amount", "Expenses", "Total_Income">>),
         expenses |-> findFinancialItem(profitAndLoss, "expenses",
                                        <<"Expenses", "Amount", "Cost", "Total_Expenses">>),
         profitBeforeTax |-> findFinancialItem(profitAndLoss, "profitBeforeTax",
                                               <<"Amount">>),
         deductions |-> findFinancialItem(profitAndLoss, "deductions",
                                          <<"Amount", "Expenses">>)]

\* RAGExtractor.parseFinancialStatementFormat(data, originalDocumentText)
StatementRecord(info, taxYear, financialData) ==
    IF \E k \in DOMAIN financialData : financialData[k] = Thrown
    THEN Throw
    ELSE Return(applySoftConstraints(
             TaxData(Str(info.name), taxYear,
                     financialData.revenue, financialData.expenses,
                     financialData.deductions,
                     OrElse(financialData.profitBeforeTax,
                            Minus(Minus(financialData.revenue, financialData.expenses),
                                  financialData.deductions)),
                     Str("Not provided"), Str(info.type))))

parseFinancialStatementFormat(data, originalDocumentText) ==
    StatementRecord(extractCompanyInfo(originalDocumentText),
                    extractYearFromText(originalDocumentText),
                    extractFinancialData(data))

\* RAGExtractor.isSimplifiedResponse(data)
isSimplifiedResponse(data) ==
    /\ \E key \in {"Revenue", "ProfitBeforeTax", "Expenses", "Income", "Sales",
                   "Turnover"} : HasKey(data, key)
    /\ ~HasKey(data, "taxpayerName")
    /\ ~HasKey(data, "Balance_Sheet")
    /\ ~HasKey(data, "Profit_and_Loss")

\* RAGExtractor.parseSimplifiedResponse(data, originalDocumentText)
AmountPatterns == {"revenue", "expenses", "profit", "deductions"}

SimplifiedRecord(data, details, taxYear, fromText) ==
    LET get(key) == Read(data.f[key])
        revenue ==
            OrElse(get("Revenue"), OrElse(get("Income"), OrElse(get("Sales"),
                OrElse(get("Turnover"), fromText["revenue"]))))
        expenses ==
            OrElse(get("Expenses"), OrElse(get("TotalExpenses"), fromText["expenses"]))
        profitBeforeTax ==
            OrElse(get("ProfitBeforeTax"), OrElse(get("Profit_Before_Tax"),
                   fromText["profit"]))
        deductions ==
            OrElse(get("Deductions"), OrElse(get("CapitalAllowances"),
                   fromText["deductions"]))
    IN  applySoftConstraints(
            TaxData(Str(details.companyName), taxYear, revenue, expenses, deductions,
                    OrElse(profitBeforeTax,
                           Minus(Minus(revenue, expenses), deductions)),
                    Str("Not provided"), Str(details.businessType)))

parseSimplifiedResponse(data, originalDocumentText) ==
    SimplifiedRecord(data, extractCompanyDetails(originalDocumentText),
                     extractTaxYear(originalDocumentText),
                     [pattern \in AmountPatterns |->
                         extractAmountFromText(originalDocumentText, pattern)])

\* typeof value === 'number' ? value : 0
NumberOrZero(value) == IF IsNumberType(value) THEN value ELSE Num(0)

\* RAGExtractor.processStandardFormat(data, originalText)
processStandardFormat(data, originalText) ==
    LET get(key) == Read(data.f[key])
        breakdown(key) == Read(data.detailedBreakdown.v[key])
        zero == Num(0)
        fromBreakdown ==
            TaxData(OrElse(get("taxpayerName"), Str("Not provided")),
                    OrElse(get("taxYear"), Num(CurrentYear)),
                    OrElse(breakdown("revenue"), OrElse(get("totalIncome"), zero)),
                    OrElse(breakdown("generalAdminExpenses"),
                           OrElse(get("totalExpenses"), zero)),
                    OrElse(breakdown("capitalAllowances"),
                           OrElse(breakdown("depreciation"),
                                  OrElse(get("totalDeductions"), zero))),
                    OrElse(breakdown("profitBeforeTax"),
                           OrElse(breakdown("chargeableIncome"),
                                  OrElse(get("taxableAmount"), zero))),
                    OrElse(get("taxId"), Str("Not provided")),
                    OrElse(get("businessType"), Str("Not provided")))
        standard ==
            TaxData(OrElse(get("taxpayerName"), Str("Not provided")),
                    OrElse(get("taxYear"), Num(CurrentYear)),
                    NumberOrZero(get("totalIncome")),
                    NumberOrZero(get("totalExpenses")),
                    NumberOrZero(get("totalDeductions")),
                    NumberOrZero(get("taxableAmount")),
                    OrElse(get("taxId"), Str("Not provided")),
                    OrElse(get("businessType"), Str("Not provided")))
    IN  IF data.detailedBreakdown.st = "object"
        THEN applySoftConstraints(fromBreakdown)
        ELSE applySoftConstraints(standard)

\* RAGExtractor.extractFromRawText(text)
RawTextRecord(info, taxYear, amounts) ==
    TaxData(Str(info.name), taxYear,
            amounts.totalIncome, amounts.totalExpenses, amounts.totalDeductions,
            amounts.taxableAmount, Str("Not provided"), Str(info.type))

extractFromRawText(text) ==
    RawTextRecord(extractCompanyInfo(text), extractYearFromText(text),
                  extractTaxAmounts(text))

(***************************************************************************)
(* Raw model responses.  A response is its text (for the patterns of the   *)
(* text extraction), the value its JSON spells, and the defects that keep  *)
(* JSON.parse from reading it.  A repair of the recovery cascade removes   *)
(* the defects its replace calls remove.                                   *)
(***************************************************************************)
Defects ==
    {"markdownFence", "comment", "trailingComma", "surroundingProse", "unquotedKey",
     "singleQuotedValue", "controlCharacter", "truncated", "notJson"}
\* cleanJSONString: slices from the first { to the last }, strips fences and
\* comments, trailing commas, quotes the keys
CleanRepairs ==
    {"surroundingProse", "markdownFence", "comment", "trailingComma", "unquotedKey"}
\* the rescue of safeJSONParse: strips non-printable characters and trailing
\* commas, quotes keys and single-quoted values, takes the {...} part
RescueRepairs ==
    {"controlCharacter", "trailingComma", "unquotedKey", "singleQuotedValue",
     "surroundingProse", "markdownFence"}

\* JSON.parse of a text with the given defects left
JSONParse(payload, defects) == [threw |-> defects # {}, value |-> payload]

\* cleanJSONString(content): the defects left in the cleaned text; it throws
\* when the cleaned text is not {...}
cleanJSONString(content) ==
    [threw |-> content.payload.jt # "object" \/ "notJson" \in content.defects,
     defects |-> content.defects \ CleanRepairs]

\* the rescue of safeJSONParse: the defects its replace calls leave
RescueString(content) == content.defects \ RescueRepairs

\* safeJSONParse(content): the stage that parsed the text and the value it
\* gave, or threw when no stage did
safeJSONParse(content) ==
    LET direct == JSONParse(content.payload, content.defects)
        cleaned == IF cleanJSONString(content).threw
                   THEN [threw |-> TRUE, value |-> content.payload]
                   ELSE JSONParse(content.payload, cleanJSONString(content).defects)
        rescued == JSONParse(content.payload, RescueString(content))
    IN  IF ~direct.threw
        THEN [threw |-> FALSE, stage |-> "direct", value |-> direct.value]
        ELSE IF ~cleaned.threw
        THEN [threw |-> FALSE, stage |-> "cleaned", value |-> cleaned.value]
        ELSE IF ~rescued.threw
        THEN [threw |-> FALSE, stage |-> "rescue", value |-> rescued.value]
        ELSE [threw |-> TRUE, stage |-> "none", value |-> content.payload]

\* originalDocumentText || content
TextOrContent(originalDocumentText, content) ==
    IF originalDocumentText # <<>> THEN originalDocumentText ELSE content.text

\* the tests of parseAIResponse in another order: the statement keys first
classifyStatementFirst(extractedData) ==
    IF HasKey(extractedData, "Balance_Sheet") \/ HasKey(extractedData, "Profit_and_Loss")
    THEN "FinancialStatement"
    ELSE IF HasKey(extractedData, "validationData") THEN "Enhanced"
    ELSE IF isSimplifiedResponse(extractedData) THEN "Simplified"
    ELSE "Standard"

\* the tests parseAIResponse makes on a parsed object, in its order
classify(extractedData) ==
    IF HasKey(extractedData, "validationData") THEN "Enhanced"
    ELSE IF HasKey(extractedData, "Balance_Sheet") \/ HasKey(extractedData, "Profit_and_Loss")
    THEN "FinancialStatement"
    ELSE IF isSimplifiedResponse(extractedData) THEN "Simplified"
    ELSE "Standard"

\* the handler parseAIResponse calls for each outcome of its tests
MapShape(shape, extractedData, text) ==
    CASE shape = "Enhanced" -> Return(validateExtractedData(extractedData))
      [] shape = "FinancialStatement" -> parseFinancialStatementFormat(extractedData, text)
      [] shape = "Simplified" -> Return(parseSimplifiedResponse(extractedData, text))
      [] OTHER -> Return(processStandardFormat(extractedData, text))

\* The body of the outer try of parseAIResponse, after the parse: the
\* classification of the parsed value and the mapping of its shape.  The in
\* operator throws on a primitive.
NormalizeParsed(extractedData, text, fromRawText) ==
    IF extractedData.jt = "falsy" THEN Return(fromRawText)
    ELSE IF extractedData.jt = "primitive" THEN Throw
    ELSE MapShape(classify(extractedData), extractedData, text)

\* the outer catch of parseAIResponse
ParseFallback(attempt, fromRawText) ==
    IF attempt.threw THEN Return(fromRawText) ELSE attempt

\* RAGExtractor.parseAIResponse(content, originalDocumentText)
\* the try block of parseAIResponse: fromRawText is what
\* extractFromRawText(originalDocumentText || content) gives
ParseAttempt(parsed, text, fromRawText) ==
    IF parsed.threw THEN Return(fromRawText)
    ELSE NormalizeParsed(parsed.value, text, fromRawText)

ParseWith(parsed, text, fromRawText) ==
    ParseFallback(ParseAttempt(parsed, text, fromRawText), fromRawText)

parseAIResponse(content, originalDocumentText) ==
    ParseWith(safeJSONParse(content), TextOrContent(originalDocumentText, content),
              extractFromRawText(TextOrContent(originalDocumentText, content)))

(***************************************************************************)
(* The sampled inputs: document texts and raw model responses.             *)
(***************************************************************************)
\* a company header, the year, a revenue line and a parenthesized loss
StatementDocument ==
    <<"CACHE", " ", "TECHNOLOGY", " ", "COMPANY", " ", "LIMITED", "\n",
      "Year ended", " ", "2", "0", "2", "3", "\n",
      "Revenue", " ", "1", "3", ",", "2", "4", "7", "\n",
      "General expenses", " ", "1", "4", ",", "9", "2", "7", "\n",
      "Profit before tax", " ", "(", "1", ",", "6", "8", "0", ")">>
\* a revenue line that holds a dash and no figure, and no digit after it
DashDocument == <<"ACME", " ", "TRADING", " ", "LTD", "\n", "Revenue", " ", "-">>
\* a header phrase and figures on the line after their labels
HeaderDocument ==
    <<"Financial Statements", " ", "of", " ", "Acme Traders", "\n",
      "Revenue", "\n", "5", "0", "0", "\n", "Total", " ", "3", "0", "0">>
Documents == {<<>>, StatementDocument, DashDocument, HeaderDocument}

Fields(object) ==
    [k \in FlatFields |-> IF k \in DOMAIN object THEN object[k] ELSE Absent]
Nested(object, keys) ==
    [st |-> "object", v |-> [k \in keys |-> IF k \in DOMAIN object THEN object[k] ELSE Absent]]
Item(account, values) ==
    [isNull |-> FALSE, Account |-> Str(account),
     v |-> [k \in ItemFields |-> IF k \in DOMAIN values THEN values[k] ELSE Absent]]
NullItem == [isNull |-> TRUE, Account |-> Undefined, v |-> [k \in ItemFields |-> Absent]]

Content(text, payload, defects) ==
    [text |-> text, payload |-> payload, defects |-> defects]

\* '' : what an empty completion holds
EmptyContent == Content(<<>>, [EmptyObject EXCEPT !.jt = "falsy"], {"notJson"})
\* Revenue - not available
ProseContent ==
    Content(<<"Revenue", " ", "-", " ", "not available">>,
            [EmptyObject EXCEPT !.jt = "falsy"], {"notJson"})
\* null
NullContent == Content(<<"null">>, [EmptyObject EXCEPT !.jt = "falsy"], {})
\* 5
NumberContent == Content(<<"5">>, [EmptyObject EXCEPT !.jt = "primitive"], {})
\* {"taxpayerName":"ACME LTD","taxYear":2023,"totalIncome":1000,
\*  "totalExpenses":10000,"totalDeductions":0,"taxableAmount":0,
\*  "taxId":"C001","businessType":"Trading"}
StandardContent ==
    Content(<<"{", "\"", "taxpayerName", "\"", ":", "\"", "ACME", " ", "LTD", "\"", ",",
              "\"", "taxYear", "\"", ":", "2", "0", "2", "3", ",",
              "\"", "totalIncome", "\"", ":", "1", "0", "0", "0", ",",
              "\"", "totalExpenses", "\"", ":", "1", "0", "0", "0", "0", ",",
              "\"", "totalDeductions", "\"", ":", "0", ",",
              "\"", "taxableAmount", "\"", ":", "0", ",",
              "\"", "taxId", "\"", ":", "\"", "C", "0", "0", "1", "\"", ",",
              "\"", "businessType", "\"", ":", "\"", "Trading", "\"", "}">>,
            [EmptyObject EXCEPT !.f =
                Fields([taxpayerName |-> Str("ACME LTD"), taxYear |-> Num(2023),
                        totalIncome |-> Num(1000), totalExpenses |-> Num(10000),
                        totalDeductions |-> Num(0), taxableAmount |-> Num(0),
                        taxId |-> Str("C001"), businessType |-> Str("Trading")])],
            {})
\* {"totalIncome":1e999,"taxableAmount":"500"}
OverflowContent ==
    Content(<<"{", "\"", "totalIncome", "\"", ":", "1", "e", "9", "9", "9", ",",
              "\"", "taxableAmount", "\"", ":", "\"", "5", "0", "0", "\"", "}">>,
            [EmptyObject EXCEPT !.f =
                Fields([totalIncome |-> Infinity, taxableAmount |-> Str("500")])],
            {})
\* {"totalIncome":0,"taxableAmount":0,
\*  "validationData":{"revenue":50000,"profitBeforeTax":15000}}
EnhancedContent ==
    Content(<<"{", "\"", "totalIncome", "\"", ":", "0", ",",
              "\"", "taxableAmount", "\"", ":", "0", ",",
              "\"", "validationData", "\"", ":", "{",
              "\"", "revenue", "\"", ":", "5", "0", "0", "0", "0", ",",
              "\"", "profitBeforeTax", "\"", ":", "1", "5", "0", "0", "0", "}", "}">>,
            [EmptyObject EXCEPT
                !.f = Fields([totalIncome |-> Num(0), taxableAmount |-> Num(0)]),
                !.validationData =
                    Nested([revenue |-> Num(50000), profitBeforeTax |-> Num(15000)],
                           ValidationFields)],
            {})
\* {"Profit_and_Loss":[{"Account":"Revenue","Amount":13247},
\*                     {"Account":"General & admin expenses","Expenses":14927}]}
StatementContent ==
    Content(<<"{", "\"", "Profit_and_Loss", "\"", ":", "[",
              "{", "\"", "Account", "\"", ":", "\"", "Revenue", "\"", ",",
              "\"", "Amount", "\"", ":", "1", "3", "2", "4", "7", "}", ",",
              "{", "\"", "Account", "\"", ":", "\"", "General", " ", "&", " ",
              "admin", " ", "expenses", "\"", ",",
              "\"", "Expenses", "\"", ":", "1", "4", "9", "2", "7", "}", "]", "}">>,
            [EmptyObject EXCEPT !.Profit_and_Loss =
                [st |-> "array",
                 items |-> <<Item("Revenue", [Amount |-> Num(13247)]),
                             Item("General & admin expenses",
                                  [Expenses |-> Num(14927)])>>]],
            {})
\* {"Profit_and_Loss":[null]}
NullItemContent ==
    Content(<<"{", "\"", "Profit_and_Loss", "\"", ":", "[", "null", "]", "}">>,
            [EmptyObject EXCEPT !.Profit_and_Loss =
                [st |-> "array", items |-> <<NullItem>>]],
            {})
\* {"Revenue":1680,"ProfitBeforeTax":1680}
SimplifiedContent ==
    Content(<<"{", "\"", "Revenue", "\"", ":", "1", "6", "8", "0", ",",
              "\"", "ProfitBeforeTax", "\"", ":", "1", "6", "8", "0", "}">>,
            [EmptyObject EXCEPT !.f =
                Fields([Revenue |-> Num(1680), ProfitBeforeTax |-> Num(1680)])],
            {})
\* a fenced block, <fence> standing for the three backquotes:
\* <fence>json\n{"totalIncome": 500, "totalExpenses": 300,}\n<fence>
FencedContent ==
    Content(<<"<fence>json", "\n", "{", "\"", "totalIncome", "\"", ":", " ", "5", "0", "0",
              ",", " ", "\"", "totalExpenses", "\"", ":", " ", "3", "0", "0", ",", "}",
              "\n", "<fence>">>,
            [EmptyObject EXCEPT !.f =
                Fields([totalIncome |-> Num(500), totalExpenses |-> Num(300)])],
            {"markdownFence", "trailingComma"})
\* {"taxpayerName": 'ACME', "totalIncome": 500}
SingleQuotedContent ==
    Content(<<"{", "\"", "taxpayerName", "\"", ":", " ", "'", "ACME", "'", ",", " ",
              "\"", "totalIncome", "\"", ":", " ", "5", "0", "0", "}">>,
            [EmptyObject EXCEPT !.f =
                Fields([taxpayerName |-> Str("ACME"), totalIncome |-> Num(500)])],
            {"singleQuotedValue"})
\* {"totalIncome": 500, "totalExp
TruncatedContent ==
    Content(<<"{", "\"", "totalIncome", "\"", ":", " ", "5", "0", "0", ",", " ",
              "\"", "totalExp">>,
            [EmptyObject EXCEPT !.f = Fields([totalIncome |-> Num(500)])],
            {"truncated"})

\* {"validationData":null,"Profit_and_Loss":[{"Account":"Revenue","Amount":500}]}
EnhancedStatementContent ==
    Content(<<"{", "\"", "validationData", "\"", ":", "null", ",",
              "\"", "Profit_and_Loss", "\"", ":", "[",
              "{", "\"", "Account", "\"", ":", "\"", "Revenue", "\"", ",",
              "\"", "Amount", "\"", ":", "5", "0", "0", "}", "]", "}">>,
            [EmptyObject EXCEPT
                !.validationData = [NoValidation EXCEPT !.st = "null"],
                !.Profit_and_Loss =
                    [st |-> "array",
                     items |-> <<Item("Revenue", [Amount |-> Num(500)])>>]],
            {})
\* {"Revenue":1680,"taxpayerName":"ACME"}
NamedSimplifiedContent ==
    Content(<<"{", "\"", "Revenue", "\"", ":", "1", "6", "8", "0", ",",
              "\"", "taxpayerName", "\"", ":", "\"", "ACME", "\"", "}">>,
            [EmptyObject EXCEPT !.f =
                Fields([Revenue |-> Num(1680), taxpayerName |-> Str("ACME")])],
            {})
\* {"Revenue":1680,"Balance_Sheet":[]}
SheetSimplifiedContent ==
    Content(<<"{", "\"", "Revenue", "\"", ":", "1", "6", "8", "0", ",",
              "\"", "Balance_Sheet", "\"", ":", "[", "]", "}">>,
            [EmptyObject EXCEPT !.f = Fields([Revenue |-> Num(1680)]),
                                !.Balance_Sheet = TRUE],
            {})
\* []
ArrayContent == Content(<<"[", "]">>, [EmptyObject EXCEPT !.jt = "array"], {})

\* the non-empty texts a provider may return
Contents ==
    {ProseContent, NullContent, NumberContent, StandardContent, OverflowContent,
     EnhancedContent, StatementContent, NullItemContent, SimplifiedContent,
     FencedContent, SingleQuotedContent, TruncatedContent, EnhancedStatementContent,
     NamedSimplifiedContent, SheetSimplifiedContent, ArrayContent}

\* the documents handed to extractTaxData, and the texts the providers
\* answer with, in the runs of the whole extractor
SubmittedDocuments == {<<>>, DashDocument}
AnsweredContents ==
    {ProseContent, NumberContent, NullItemContent, StandardContent, EnhancedContent}

(***************************************************************************)
(* The extractor, the service that owns it, and the calls in flight.       *)
(***************************************************************************)
Providers == {"ollama", "openai", "claude"}

\* how many times initialize() is called on the one RAGExtractor
MaxInitializeCalls == 2
\* how many documents the vector store takes before addDocuments fails
MaxStoredDocuments == 1

VARIABLES
    preferredProvider,   \* config.ai.preferredProvider
    enabled,             \* the providers config.ai enables
    ragExtractor,        \* RAGExtractorService.ragExtractor: "null" or "extractor"
    isInitialized,       \* RAGExtractorService.isInitialized
    embeddings,          \* RAGExtractor.embeddings: "null" or "client"
    vectorStore,         \* RAGExtractor.vectorStore: its st, the call that made it, its documents
    llm,                 \* RAGExtractor.llm, .openai, .claude: "null" or "client"
    openai,
    claude,
    availableProviders,  \* RAGExtractor.availableProviders, in the order of the pushes
    initializeCalls,     \* the calls of RAGExtractor.initialize() so far
    initPc,              \* the call of initialize() in flight: "idle", "running", "resolved", "rejected"
    step,                \* where each provider's initialisation of that call stands
    exPc,                \* the call of extractTaxData: "idle", "storing", "awaiting",
                         \* "returned", or "threw" had it thrown to its caller
    documentText,        \* its argument
    storingInto,         \* the vector store its addDocuments was called on
    providersToTry,      \* its try-list: the array getProvidersToTry returned
    position,            \* the index of the provider it awaits
    invoked,             \* the providers extractWithProvider was called for, in order
    reply,               \* what the last awaited provider call gave
    returnedBy,          \* who produced the result
    result,              \* what the call returned
    response,            \* what testConnection or generateAnnualReport returned
    unitPc,              \* a function examined on its own: where its call stands
    rawResponse,         \* parseAIResponse: the raw response it is given
    sourceText,          \* parseAIResponse: the document text it is given
    stages,              \* parseAIResponse: the stages and handlers run, in order
    parsedObject,        \* parseAIResponse: what safeJSONParse returned
    givenRecord,         \* applySoftConstraints: the record it is given
    validationResults,   \* validateExtractedData: what performCrossValidation returned
    returned,            \* the values the examined function returned, in order
    extractors,          \* the RAGExtractor instances constructed: "initializing", "initialized"
    held,                \* which of them RAGExtractorService.ragExtractor is (0: null)
    initializers,        \* the calls of RAGExtractorService.initialize(): pc and instance made
    served,              \* what the service's extractTaxData calls were served by
    uploadPc,            \* UploadController.uploadDocument: where the call stands
    extraction,          \* what its ragExtractor.extractTaxData gave (threw, data)
    extractedData,       \* its extractedData
    extractionMethod,    \* its extractionMethod
    savedDocuments,      \* what mongoService.saveDocument was given
    mongoClient,         \* MongoService.client: "null" or "client"
    mongoDb,             \* MongoService.db: "null" or "db"
    isConnecting,        \* MongoService.isConnecting
    connectionPromise,   \* MongoService.connectionPromise: 0 (null) or a promise
    promises,            \* the promises initializeConnection made: phase of each attempt
    callers              \* the calls of getCollection: pc and the promise awaited

vars ==
    <<preferredProvider, enabled, ragExtractor, isInitialized, embeddings, vectorStore,
      llm, openai, claude, availableProviders, initializeCalls, initPc, step, exPc,
      documentText, storingInto, providersToTry, position, invoked, reply, returnedBy,
      result, response, unitPc, rawResponse, sourceText, stages, parsedObject,
      givenRecord, validationResults, returned, extractors, held, initializers, served,
      uploadPc, extraction, extractedData, extractionMethod, savedDocuments,
      mongoClient, mongoDb, isConnecting, connectionPromise, promises, callers>>
serviceVars == <<ragExtractor, isInitialized>>
configVars == <<preferredProvider, enabled>>
extractorVars == <<embeddings, vectorStore, llm, openai, claude, availableProviders>>
initVars == <<initializeCalls, initPc, step>>
callVars ==
    <<exPc, documentText, storingInto, providersToTry, position, invoked, reply,
      returnedBy, result, response>>
unitVars ==
    <<unitPc, rawResponse, sourceText, stages, parsedObject, givenRecord,
      validationResults, returned>>
instanceVars == <<extractors, held, initializers, served>>
uploadVars == <<uploadPc, extraction, extractedData, extractionMethod, savedDocuments>>
mongoVars ==
    <<mongoClient, mongoDb, isConnecting, connectionPromise, promises, callers>>
appVars == <<instanceVars, uploadVars, mongoVars>>
otherVars == <<unitVars, appVars>>

NoStore == [st |-> "null", madeBy |-> 0, docs |-> {}]
NoReply == [kind |-> "none", content |-> EmptyContent]
\* the overlapping calls examined
MaxServiceCalls == 3
ServiceCalls == 1..MaxServiceCalls
MaxMongoCallers == 3
MongoCallers == 1..MaxMongoCallers

NoResponse ==
    [kind |-> "none", by |-> "none", live |-> [p \in Providers |-> FALSE]]
\* no function is examined on its own
UnitIdle ==
    /\ unitPc = "idle"
    /\ rawResponse = EmptyContent
    /\ sourceText = <<>>
    /\ stages = <<>>
    /\ parsedObject = EmptyObject
    /\ givenRecord = getDefaultTaxData
    /\ validationResults = <<>>
    /\ returned = <<>>

\* The configurations sampled.  Ollama is always enabled, OpenAI and Claude
\* when their key is set; the preferred provider is any name (ollama unless
\* AI_PROVIDER says otherwise), here also one that has no key.
Configurations ==
    {[preferred |-> "openai", enabled |-> Providers],
     [preferred |-> "ollama", enabled |-> Providers],
     [preferred |-> "claude", enabled |-> {"ollama", "openai"}]}

\* the service and its extractor as the constructors leave them, no call made
Constructed ==
    /\ \E c \in Configurations :
          /\ preferredProvider = c.preferred
          /\ enabled = c.enabled
    /\ ragExtractor = "null"
    /\ isInitialized = FALSE
    /\ embeddings = "null"
    /\ vectorStore = NoStore
    /\ llm = "null"
    /\ openai = "null"
    /\ claude = "null"
    /\ availableProviders = <<>>
    /\ initializeCalls = 0
    /\ initPc = "idle"
    /\ step = [p \in Providers |-> "idle"]
    /\ exPc = "idle"
    /\ documentText = <<>>
    /\ storingInto = 0
    /\ providersToTry = <<>>
    /\ position = 0
    /\ invoked = <<>>
    /\ reply = NoReply
    /\ returnedBy = "none"
    /\ result = getDefaultTaxData
    /\ response = NoResponse
    /\ extractors = <<>>
    /\ held = 0
    /\ initializers = [c \in ServiceCalls |-> [pc |-> "idle", made |-> 0]]
    /\ served = {}
    /\ uploadPc = "idle"
    /\ extraction = Return(getDefaultTaxData)
    /\ extractedData = getDefaultTaxData
    /\ extractionMethod = "manual"
    /\ savedDocuments = <<>>
    /\ mongoClient = "null"
    /\ mongoDb = "null"
    /\ isConnecting = FALSE
    /\ connectionPromise = 0
    /\ promises = <<>>
    /\ callers = [c \in MongoCallers |-> [pc |-> "idle", awaits |-> 0]]

Init == Constructed /\ UnitIdle

(***************************************************************************)
(* RAGExtractor.initialize(): the three provider initialisations run       *)
(* concurrently, each up to its next await.  A backend either answers a    *)
(* probe (with a value or an error) or stays silent for ever; the steps    *)
(* named ...Silent are probes that will never be answered.                 *)
(***************************************************************************)
\* where initializeOllamaLLM stands after its synchronous part: awaiting the
\* probe, or "done" when new Ollama(...) threw and null was returned
LLMStarts == {"llm", "llmSilent", "done"}
\* the same for initializeOllamaEmbeddings; when new OllamaEmbeddings(...)
\* throws, initializeOllama goes on to the LLM at once
EmbeddingsStarts == {"embeddings", "embeddingsSilent"} \cup LLMStarts
\* initializeOpenAI, initializeClaude: awaiting the probe, or "done" when the
\* client's constructor threw
ProbeStarts == {"probe", "probeSilent", "done"}

\* this.availableProviders.push(name)
Register(available, name) == Append(available, name)

\* the synchronous part of initialize(): Promise.all over the three calls
BeginInitialize ==
    /\ initializeCalls' = initializeCalls + 1
    /\ initPc' = "running"
    /\ \E so \in (IF "ollama" \in enabled THEN EmbeddingsStarts ELSE {"done"}),
          sa \in (IF "openai" \in enabled THEN ProbeStarts ELSE {"done"}),
          sc \in (IF "claude" \in enabled THEN ProbeStarts ELSE {"done"}) :
          /\ step' = [p \in Providers |->
                         CASE p = "ollama" -> so [] p = "openai" -> sa [] p = "claude" -> sc]
          /\ openai' = IF "openai" \notin enabled THEN openai
                       ELSE IF sa = "done" THEN "null" ELSE "client"
          /\ claude' = IF "claude" \notin enabled THEN claude
                       ELSE IF sc = "done" THEN "null" ELSE "client"
    /\ UNCHANGED <<embeddings, vectorStore, llm, availableProviders>>

\* RAGExtractorService.initialize(), the call made at start-up
ServiceInitialize ==
    /\ ~isInitialized
    /\ ragExtractor = "null"
    /\ initPc = "idle"
    /\ exPc = "idle"
    /\ ragExtractor' = "extractor"
    /\ BeginInitialize
    /\ UNCHANGED <<isInitialized, configVars, otherVars, callVars>>

\* a further initialize() on the extractor getExtractor() hands out
Reinitialize ==
    /\ ragExtractor = "extractor"
    /\ initPc = "resolved"
    /\ exPc = "idle"
    /\ initializeCalls < MaxInitializeCalls
    /\ BeginInitialize
    /\ UNCHANGED <<serviceVars, configVars, otherVars, callVars>>

\* embedQuery settles before the 5000 ms timer
EmbeddingsAnswer ==
    /\ step["ollama"] = "embeddings"
    /\ \E ok \in BOOLEAN, next \in LLMStarts :
          /\ embeddings' = IF ok THEN "client" ELSE embeddings
          /\ vectorStore' = IF ok
                            THEN [st |-> "store", madeBy |-> initializeCalls, docs |-> {}]
                            ELSE vectorStore
          /\ step' = [step EXCEPT !["ollama"] = next]
    /\ UNCHANGED <<llm, openai, claude, availableProviders, initializeCalls, initPc,
                   serviceVars, configVars, otherVars, callVars>>

\* the 5000 ms timer rejects first
EmbeddingsTimeout ==
    /\ step["ollama"] = "embeddingsSilent"
    /\ \E next \in LLMStarts : step' = [step EXCEPT !["ollama"] = next]
    /\ UNCHANGED <<extractorVars, initializeCalls, initPc, serviceVars, configVars, otherVars,
                   callVars>>

\* invoke("Test connection") settles before the 15000 ms timer: with a text,
\* with the empty string, or with an error
LLMAnswer ==
    /\ step["ollama"] = "llm"
    /\ \E outcome \in {"text", "empty", "throw"} :
          /\ llm' = IF outcome = "text" THEN "client" ELSE llm
          /\ availableProviders' = IF outcome = "text"
                                   THEN Register(availableProviders, "ollama")
                                   ELSE availableProviders
    /\ step' = [step EXCEPT !["ollama"] = "done"]
    /\ UNCHANGED <<embeddings, vectorStore, openai, claude, initializeCalls, initPc,
                   serviceVars, configVars, otherVars, callVars>>

\* the 15000 ms timer rejects first
LLMTimeout ==
    /\ step["ollama"] = "llmSilent"
    /\ step' = [step EXCEPT !["ollama"] = "done"]
    /\ UNCHANGED <<extractorVars, initializeCalls, initPc, serviceVars, configVars, otherVars,
                   callVars>>

\* chat.completions.create settles: there is no timer beside it
OpenAIAnswer ==
    /\ step["openai"] = "probe"
    /\ \E ok \in BOOLEAN :
          /\ openai' = IF ok THEN openai ELSE "null"
          /\ availableProviders' = IF ok THEN Register(availableProviders, "openai")
                                   ELSE availableProviders
    /\ step' = [step EXCEPT !["openai"] = "done"]
    /\ UNCHANGED <<embeddings, vectorStore, llm, claude, initializeCalls, initPc,
                   serviceVars, configVars, otherVars, callVars>>

\* messages.create settles: there is no timer beside it
ClaudeAnswer ==
    /\ step["claude"] = "probe"
    /\ \E ok \in BOOLEAN :
          /\ claude' = IF ok THEN claude ELSE "null"
          /\ availableProviders' = IF ok THEN Register(availableProviders, "claude")
                                   ELSE availableProviders
    /\ step' = [step EXCEPT !["claude"] = "done"]
    /\ UNCHANGED <<embeddings, vectorStore, llm, openai, initializeCalls, initPc,
                   serviceVars, configVars, otherVars, callVars>>

\* Promise.all settles, initialize() resolves, and the service marks itself
InitializeResolves ==
    /\ initPc = "running"
    /\ \A p \in Providers : step[p] = "done"
    /\ initPc' = "resolved"
    /\ step' = [p \in Providers |-> "idle"]
    /\ isInitialized' = TRUE
    /\ UNCHANGED <<ragExtractor, extractorVars, initializeCalls, configVars, otherVars, callVars>>

\* the steps of an initialize() in flight
InitializeStep ==
    \/ EmbeddingsAnswer \/ EmbeddingsTimeout \/ LLMAnswer \/ LLMTimeout
    \/ OpenAIAnswer \/ ClaudeAnswer \/ InitializeResolves

(***************************************************************************)
(* extractTaxData: the loop over the try-list, one awaited call at a time. *)
(* Calls are taken one after another: an extraction starts when no         *)
(* initialize() is running, and initialize() when no extraction is.        *)
(***************************************************************************)
Reply(kind, content) == [kind |-> kind, content |-> content]

\* What a provider call can give: an error; a response that lacks the part
\* the adapter reads (choices, content); a response with no text in it; a text.
ProviderReplies(provider) ==
    {Reply("throw", EmptyContent), Reply("empty", EmptyContent)}
    \cup (IF provider = "ollama" THEN {} ELSE {Reply("malformed", EmptyContent)})
    \cup {Reply("text", c) : c \in AnsweredContents}

\* The adapters, from the answer of the awaited client call on; parsed is
\* what this.parseAIResponse(<the answer's text>, originalDocumentText) gives.
\* extractWithOllama: return this.parseAIResponse(response, ...)
extractWithOllama(answer, parsed) ==
    IF answer.kind = "throw" THEN Throw ELSE parsed

\* extractWithOpenAI, from the answer of chat.completions.create on:
\* response.choices[0]?.message?.content || ''
extractWithOpenAI(answer, parsed) ==
    IF answer.kind \in {"throw", "malformed"} THEN Throw ELSE parsed

\* extractWithClaude, from the answer of messages.create on
extractWithClaude(answer, parsed) ==
    IF answer.kind \in {"throw", "malformed", "empty"} THEN Throw ELSE parsed

\* extractWithProvider, from the provider's answer on
AdapterOutcome(provider, answer, parsed) ==
    CASE provider = "ollama" -> extractWithOllama(answer, parsed)
      [] provider = "openai" -> extractWithOpenAI(answer, parsed)
      [] provider = "claude" -> extractWithClaude(answer, parsed)
      [] OTHER -> Throw

extractWithProvider(provider, answer, originalDocumentText) ==
    AdapterOutcome(provider, answer,
                   parseAIResponse(answer.content, originalDocumentText))

\* this.llm, this.openai, this.claude
Handle(provider) ==
    CASE provider = "ollama" -> llm
      [] provider = "openai" -> openai
      [] provider = "claude" -> claude

Elements(seq) == {seq[i] : i \in 1..Len(seq)}

\* getProvidersToTry()
getProvidersToTry(available, preferred) ==
    IF preferred \in Elements(available)
    THEN <<preferred>> \o SelectSeq(available, LAMBDA p : p # preferred)
    ELSE available

\* the first index from i on whose provider has a client; past the end if none
FirstReady(list, i) ==
    LET ready == {k \in i..Len(list) : Handle(list[k]) # "null"}
    IN  IF ready = {} THEN Len(list) + 1 ELSE Min(ready)

\* The loop from index i of the list up to its next await: a provider with
\* no client throws 'not initialized' at once and the loop goes on; past
\* the end the default record is returned.
LoopFrom(list, i) ==
    LET k == FirstReady(list, i)
    IN  /\ invoked' = invoked \o SubSeq(list, i, Min({k, Len(list)}))
        /\ position' = k
        /\ IF k <= Len(list)
           THEN /\ exPc' = "awaiting"
                /\ UNCHANGED <<returnedBy, result>>
           ELSE /\ exPc' = "returned"
                /\ returnedBy' = "default"
                /\ result' = getDefaultTaxData

\* const providersToTry = this.getProvidersToTry(), and the loop's start
BeginLoop ==
    /\ providersToTry' = getProvidersToTry(availableProviders, preferredProvider)
    /\ LoopFrom(getProvidersToTry(availableProviders, preferredProvider), 1)

\* RAGExtractorService.extractTaxData(documentText) and, with an extractor,
\* RAGExtractor.extractTaxData up to its first await
ExtractTaxData ==
    /\ exPc = "idle"
    /\ initPc # "running"
    /\ \E text \in SubmittedDocuments : documentText' = text
    /\ IF ragExtractor = "null"
       THEN /\ exPc' = "returned"
            /\ returnedBy' = "service"
            /\ result' = ServiceDefaultTaxData
            /\ UNCHANGED <<storingInto, providersToTry, position, invoked>>
       ELSE IF availableProviders = <<>>
       THEN /\ exPc' = "returned"
            /\ returnedBy' = "default"
            /\ result' = getDefaultTaxData
            /\ UNCHANGED <<storingInto, providersToTry, position, invoked>>
       ELSE IF vectorStore.st = "store" /\ embeddings # "null"
       THEN /\ exPc' = "storing"
            /\ storingInto' = vectorStore.madeBy
            /\ UNCHANGED <<providersToTry, position, invoked, returnedBy, result>>
       ELSE /\ BeginLoop
            /\ UNCHANGED storingInto
    /\ UNCHANGED <<reply, response, extractorVars, initVars, serviceVars, configVars,
                   otherVars>>

\* vectorStore.addDocuments settles: the document is in the store it was
\* handed to, or the call threw and the warning is logged
AddDocumentsSettles ==
    /\ exPc = "storing"
    /\ \E stored \in BOOLEAN :
          /\ stored => Cardinality(vectorStore.docs) < MaxStoredDocuments
          /\ vectorStore' =
                 IF stored /\ vectorStore.st = "store"
                    /\ vectorStore.madeBy = storingInto
                 THEN [vectorStore EXCEPT !.docs = @ \cup {documentText}]
                 ELSE vectorStore
    /\ BeginLoop
    /\ UNCHANGED <<documentText, storingInto, reply, response, embeddings, llm, openai, claude,
                   availableProviders, initVars, serviceVars, configVars, otherVars>>

\* the loop without its catch: what the provider threw reaches the caller
SettleUncaught(answer, outcome) ==
    /\ reply' = answer
    /\ IF outcome.threw
       THEN /\ exPc' = "threw"
            /\ UNCHANGED <<position, invoked, returnedBy, result>>
       ELSE /\ exPc' = "returned"
            /\ returnedBy' = providersToTry[position]
            /\ result' = outcome.data
            /\ UNCHANGED <<position, invoked>>

\* the try and the catch of the loop, once the awaited call has settled
Settle(answer, outcome) ==
    /\ reply' = answer
    /\ IF outcome.threw
       THEN LoopFrom(providersToTry, position + 1)
       ELSE /\ exPc' = "returned"
            /\ returnedBy' = providersToTry[position]
            /\ result' = outcome.data
            /\ UNCHANGED <<position, invoked>>

\* the awaited provider call settles
ProviderAnswers ==
    /\ exPc = "awaiting"
    /\ \E answer \in ProviderReplies(providersToTry[position]) :
          Settle(answer,
                 extractWithProvider(providersToTry[position], answer, documentText))
    /\ UNCHANGED <<documentText, storingInto, providersToTry, response, extractorVars, initVars,
                   serviceVars, configVars, otherVars>>

\* the caller takes the record
ReturnToCaller ==
    /\ exPc = "returned"
    /\ exPc' = "idle"
    /\ documentText' = <<>>
    /\ storingInto' = 0
    /\ providersToTry' = <<>>
    /\ position' = 0
    /\ invoked' = <<>>
    /\ reply' = NoReply
    /\ returnedBy' = "none"
    /\ result' = getDefaultTaxData
    /\ response' = NoResponse
    /\ UNCHANGED <<extractorVars, initVars, serviceVars, configVars, otherVars>>

\* RAGExtractorService.testConnection() and RAGExtractor.testConnection():
\* each client there is gets one 'Test connection' call, which answers with
\* something or throws; nothing but the local results is written
TestConnection ==
    /\ exPc = "idle"
    /\ initPc # "running"
    /\ \E answers \in [Providers -> BOOLEAN] :
          response' = [kind |-> "connection", by |-> "none",
                       live |-> [p \in Providers |->
                                    /\ ragExtractor # "null"
                                    /\ Handle(p) # "null"
                                    /\ answers[p]]]
    /\ exPc' = "returned"
    /\ returnedBy' = "testConnection"
    /\ UNCHANGED <<documentText, storingInto, providersToTry, position, invoked, reply,
                   result, extractorVars, initVars, serviceVars, configVars, otherVars>>

\* generateReportWith<Provider>, from the answer of the client call on: the
\* providers whose call gives a report
Reports(answers) ==
    {p \in Providers :
        /\ Handle(p) # "null"
        /\ answers[p] # "throw"
        /\ p = "claude" => answers[p] # "empty"}

\* RAGExtractorService.generateAnnualReport(extractedData) and
\* RAGExtractor.generateAnnualReport: the loop over the try-list, the report
\* of the first provider that does not throw, else the default report
GenerateAnnualReport ==
    /\ exPc = "idle"
    /\ initPc # "running"
    /\ \E answers \in [Providers -> {"throw", "empty", "text"}] :
          LET list == getProvidersToTry(availableProviders, preferredProvider)
              able == {i \in 1..Len(list) : list[i] \in Reports(answers)}
          IN  response' =
                  [NoResponse EXCEPT
                      !.kind = "report",
                      !.by = IF ragExtractor = "null" THEN "service"
                             ELSE IF able = {} THEN "default"
                             ELSE list[Min(able)]]
    /\ exPc' = "returned"
    /\ returnedBy' = "generateAnnualReport"
    /\ UNCHANGED <<documentText, storingInto, providersToTry, position, invoked, reply,
                   result, extractorVars, initVars, serviceVars, configVars, otherVars>>

Next ==
    \/ ServiceInitialize
    \/ Reinitialize
    \/ EmbeddingsAnswer
    \/ EmbeddingsTimeout
    \/ LLMAnswer
    \/ LLMTimeout
    \/ OpenAIAnswer
    \/ ClaudeAnswer
    \/ InitializeResolves
    \/ ExtractTaxData
    \/ AddDocumentsSettles
    \/ ProviderAnswers
    \/ TestConnection
    \/ GenerateAnnualReport
    \/ ReturnToCaller

Spec == Init /\ [][Next]_vars

(***************************************************************************)
(* parseAIResponse on its own, stage by stage: the three parses of         *)
(* safeJSONParse, the mapping of the parsed value, the text extraction.    *)
(* stages records what ran: "direct", "cleaned", "rescue", the shape the   *)
(* value was classified as, "applySoftConstraints" when the handler came   *)
(* to call it, and "text" for extractFromRawText.                          *)
(***************************************************************************)
programVars == <<serviceVars, configVars, extractorVars, initVars, callVars, appVars>>

\* every sampled response, the empty one included, with every sampled document
ParserInit ==
    /\ Constructed
    /\ preferredProvider = "ollama"
    /\ unitPc = "direct"
    /\ rawResponse \in Contents \cup {EmptyContent}
    /\ sourceText \in Documents
    /\ stages = <<>>
    /\ parsedObject = EmptyObject
    /\ givenRecord = getDefaultTaxData
    /\ validationResults = <<>>
    /\ returned = <<>>

\* every parse is tried, whether or not the one before gave a value
ParseStageTryAll(stage, attempt, next) ==
    /\ stages' = Append(stages, stage)
    /\ IF attempt.threw \/ next # "text"
       THEN /\ unitPc' = next
            /\ parsedObject' = IF attempt.threw THEN parsedObject ELSE attempt.value
       ELSE /\ unitPc' = "normalize"
            /\ parsedObject' = attempt.value
    /\ UNCHANGED <<rawResponse, sourceText, givenRecord, validationResults, returned,
                   programVars>>

\* a parse of safeJSONParse has run: its value goes to the mapping, or it
\* threw and the next stage is tried
ParseStage(stage, attempt, next) ==
    /\ stages' = Append(stages, stage)
    /\ IF attempt.threw
       THEN /\ unitPc' = next
            /\ UNCHANGED parsedObject
       ELSE /\ unitPc' = "normalize"
            /\ parsedObject' = attempt.value
    /\ UNCHANGED <<rawResponse, sourceText, givenRecord, validationResults, returned,
                   programVars>>

\* return JSON.parse(content)
DirectParse ==
    /\ unitPc = "direct"
    /\ ParseStage("direct", JSONParse(rawResponse.payload, rawResponse.defects),
                  "cleaned")

\* const cleaned = cleanJSONString(content); return JSON.parse(cleaned)
CleanedParse ==
    /\ unitPc = "cleaned"
    /\ ParseStage("cleaned",
                  IF cleanJSONString(rawResponse).threw
                  THEN [threw |-> TRUE, value |-> rawResponse.payload]
                  ELSE JSONParse(rawResponse.payload,
                                 cleanJSONString(rawResponse).defects),
                  "rescue")

\* return JSON.parse(rescued); when it throws, safeJSONParse throws and
\* parseAIResponse goes to the text extraction
RescueParse ==
    /\ unitPc = "rescue"
    /\ ParseStage("rescue", JSONParse(rawResponse.payload, RescueString(rawResponse)),
                  "text")

\* the handler has returned or thrown; a throw is caught by the outer catch
Mapped(shape, outcome) ==
    IF outcome.threw
    THEN /\ stages' = Append(stages, shape)
         /\ unitPc' = "text"
         /\ UNCHANGED returned
    ELSE /\ stages' = stages \o <<shape, "applySoftConstraints">>
         /\ unitPc' = "done"
         /\ returned' = <<outcome.data>>

\* parseAIResponse after the parse: no data, a value the in operator throws
\* on, or an object that is classified and handed to its handler
Normalize ==
    /\ unitPc = "normalize"
    /\ IF parsedObject.jt \in {"falsy", "primitive"}
       THEN /\ unitPc' = "text"
            /\ UNCHANGED <<stages, returned>>
       ELSE Mapped(classify(parsedObject),
                   MapShape(classify(parsedObject), parsedObject,
                            TextOrContent(sourceText, rawResponse)))
    /\ UNCHANGED <<rawResponse, sourceText, parsedObject, givenRecord,
                   validationResults, programVars>>

\* return this.extractFromRawText(originalDocumentText || content)
TextExtraction ==
    /\ unitPc = "text"
    /\ stages' = Append(stages, "text")
    /\ returned' = <<extractFromRawText(TextOrContent(sourceText, rawResponse))>>
    /\ unitPc' = "done"
    /\ UNCHANGED <<rawResponse, sourceText, parsedObject, givenRecord,
                   validationResults, programVars>>

ParserNext ==
    \/ DirectParse
    \/ CleanedParse
    \/ RescueParse
    \/ Normalize
    \/ TextExtraction

ParserSpec == ParserInit /\ [][ParserNext]_vars

\* the stages agree with parseAIResponse taken as one function
ParserAgrees ==
    unitPc = "done" =>
        returned = <<parseAIResponse(rawResponse, sourceText).data>>

(***************************************************************************)
(* applySoftConstraints on its own: a record is given, the function is     *)
(* applied to it, and applied again to what it returned.  The amounts are  *)
(* drawn around the thresholds of the two rules (3 and 5 times the income; *)
(* 1000 and a tenth of the income) together with the values that are no    *)
(* finite number.                                                          *)
(***************************************************************************)
GivenIncomes == {Num(0), Num(1000), Num(1001), Num(20000), Num(-500), NaN, Str("1000")}
GivenExpenses ==
    {Num(0), Num(300), Num(3000), Num(3001), Num(5000), Num(5001), Num(10000),
     Num(18500), Infinity, Undefined}
GivenDeductions == {Num(0), Num(100), Null}
GivenTaxables == {Num(0), Num(700), Num(-1680), Num(15000), NaN, NegInfinity}

GivenBusinessTypes == {Str("Trading"), Str("Holding Company")}

GivenRecords ==
    {TaxData(Str("ACME LTD"), Num(2023), income, expenses, deductions, taxable,
             Str("C0001"), type)
        : income \in GivenIncomes, expenses \in GivenExpenses,
          deductions \in GivenDeductions, taxable \in GivenTaxables,
          type \in GivenBusinessTypes}

ConstraintsInit ==
    /\ Constructed
    /\ preferredProvider = "ollama"
    /\ unitPc = "given"
    /\ givenRecord \in GivenRecords
    /\ rawResponse = EmptyContent
    /\ sourceText = <<>>
    /\ stages = <<>>
    /\ parsedObject = EmptyObject
    /\ validationResults = <<>>
    /\ returned = <<>>

\* this.applySoftConstraints(data)
ApplySoftConstraints ==
    /\ unitPc = "given"
    /\ returned' = <<applySoftConstraints(givenRecord)>>
    /\ stages' = <<"applySoftConstraints">>
    /\ unitPc' = "constrained"
    /\ UNCHANGED <<rawResponse, sourceText, parsedObject, givenRecord,
                   validationResults, programVars>>

\* this.applySoftConstraints(...) on the record the first call returned
ApplyAgain ==
    /\ unitPc = "constrained"
    /\ returned' = Append(returned, applySoftConstraints(returned[1]))
    /\ stages' = Append(stages, "applySoftConstraints")
    /\ unitPc' = "done"
    /\ UNCHANGED <<rawResponse, sourceText, parsedObject, givenRecord,
                   validationResults, programVars>>

ConstraintsNext ==
    \/ ApplySoftConstraints
    \/ ApplyAgain

ConstraintsSpec == ConstraintsInit /\ [][ConstraintsNext]_vars

(***************************************************************************)
(* validateExtractedData on its own: an enhanced object is given, with the *)
(* validation values and the record's values drawn around the tolerances   *)
(* (a tenth of validation.revenue; 100), and with the values that are      *)
(* falsy or missing.                                                       *)
(***************************************************************************)
ValidationRevenues == {Absent, Num(0), Num(1000), Num(50000), Num(-500), Str("1000")}
ValidationProfits ==
    {Absent, Num(0), Num(-1680), Num(5000), Num(5100), Num(5101), Num(15000)}
ValidationNetProfits == {Absent, Num(20000)}
ParsedIncomes == {Absent, Num(0), Num(899), Num(900), Num(1000), Num(1101)}
ParsedTaxables == {Absent, Num(0), Num(5000)}

EnhancedObjects ==
    {[EmptyObject EXCEPT
         !.f = [@ EXCEPT !["totalIncome"] = income, !["taxableAmount"] = taxable,
                         !["totalExpenses"] = Num(300)],
         !.validationData =
             [st |-> "object",
              v |-> [NoValidation.v EXCEPT !["revenue"] = revenue,
                                           !["profitBeforeTax"] = profit,
                                           !["netProfitAfterTax"] = net]]]
        : income \in ParsedIncomes, taxable \in ParsedTaxables,
          revenue \in ValidationRevenues, profit \in ValidationProfits,
          net \in ValidationNetProfits}
    \cup {[EmptyObject EXCEPT
              !.f = [@ EXCEPT !["totalIncome"] = income],
              !.validationData = [NoValidation EXCEPT !.st = "null"]]
            : income \in ParsedIncomes}

ValidationInit ==
    /\ Constructed
    /\ preferredProvider = "ollama"
    /\ unitPc = "validate"
    /\ parsedObject \in EnhancedObjects
    /\ rawResponse = EmptyContent
    /\ sourceText = <<>>
    /\ stages = <<>>
    /\ givenRecord = getDefaultTaxData
    /\ validationResults = <<>>
    /\ returned = <<>>

\* const validationResults = this.performCrossValidation(validationData, data)
PerformCrossValidation ==
    /\ unitPc = "validate"
    /\ parsedObject.validationData.st = "object"
    /\ validationResults' =
           <<performCrossValidation(parsedObject.validationData.v,
                                    SpreadObject(parsedObject))>>
    /\ givenRecord' = ApplyCorrections(parsedObject, SpreadObject(parsedObject),
                                       validationResults'[1])
    /\ stages' = Append(stages, "performCrossValidation")
    /\ unitPc' = "constrain"
    /\ UNCHANGED <<rawResponse, sourceText, parsedObject, returned, programVars>>

\* if (validationData) is false: the record is the object's own
SkipCrossValidation ==
    /\ unitPc = "validate"
    /\ parsedObject.validationData.st # "object"
    /\ givenRecord' = SpreadObject(parsedObject)
    /\ unitPc' = "constrain"
    /\ UNCHANGED <<rawResponse, sourceText, parsedObject, stages, validationResults,
                   returned, programVars>>

\* validatedData = this.applySoftConstraints(validatedData);
\* delete validatedData.validationData; return validatedData
ConstrainValidated ==
    /\ unitPc = "constrain"
    /\ returned' = <<WithoutValidationData(applySoftConstraints(givenRecord))>>
    /\ stages' = Append(stages, "applySoftConstraints")
    /\ unitPc' = "done"
    /\ UNCHANGED <<rawResponse, sourceText, parsedObject, givenRecord,
                   validationResults, programVars>>

ValidationNext ==
    \/ PerformCrossValidation
    \/ SkipCrossValidation
    \/ ConstrainValidated

ValidationSpec == ValidationInit /\ [][ValidationNext]_vars

\* the steps agree with validateExtractedData taken as one function
ValidationAgrees ==
    unitPc = "done" => returned = <<validateExtractedData(parsedObject)>>

(***************************************************************************)
(* The handlers of the three shapes parseAIResponse maps without           *)
(* validation data, each on its own: a parsed object of the shape is       *)
(* given, with the document text, and its handler is called.  The objects  *)
(* are drawn so that an item or a key holds several of the fields a        *)
(* handler looks at, holds them with a value that is falsy or of another   *)
(* type, or lacks them.                                                    *)
(***************************************************************************)
RevenueItems ==
    {<<>>,
     <<Item("Revenue", [Amount |-> Num(1000)])>>,
     <<Item("Revenue", [Amount |-> Num(1000), Expenses |-> Num(7)])>>,
     <<Item("Revenue", [Expenses |-> Num(7)])>>,
     <<Item("Revenue", [Cost |-> Num(9)])>>,
     <<Item("Revenue", [Amount |-> Str("1,000")])>>}
ExpensesItems ==
    {<<>>,
     <<Item("General expenses", [Amount |-> Num(100), Expenses |-> Num(300)])>>,
     <<Item("General expenses", [Expenses |-> Num(300)])>>,
     <<Item("General expenses", [Amount |-> Num(100)])>>,
     <<Item("General expenses", [Cost |-> Num(50)])>>}
ProfitItems ==
    {<<>>,
     <<Item("Profit before tax", [Amount |-> Num(-1680)])>>,
     <<Item("Profit before tax", [Amount |-> Num(200), Expenses |-> Num(5)])>>,
     <<Item("Profit before tax", [Expenses |-> Num(5)])>>}
DeductionsItems ==
    {<<>>,
     <<Item("Depreciation", [Amount |-> Num(40), Expenses |-> Num(60)])>>,
     <<Item("Depreciation", [Cost |-> Num(9)])>>}

StatementObjects ==
    {[EmptyObject EXCEPT !.Profit_and_Loss =
         [st |-> "array", items |-> revenue \o expenses \o profit \o deductions]]
        : revenue \in RevenueItems, expenses \in ExpensesItems,
          profit \in ProfitItems, deductions \in DeductionsItems}
    \cup {[EmptyObject EXCEPT !.Profit_and_Loss =
              [st |-> "array",
               items |-> <<Item("Revenue", [Amount |-> Num(1000)]), NullItem>>]]}

SimplifiedObjects ==
    {object \in
        {[EmptyObject EXCEPT !.f =
             [@ EXCEPT !["Revenue"] = revenue, !["Income"] = income,
                       !["Expenses"] = expenses, !["TotalExpenses"] = total,
                       !["ProfitBeforeTax"] = profit, !["Deductions"] = deductions]]
            : revenue \in {Absent, Num(0), Num(1680)}, income \in {Absent, Num(900)},
              expenses \in {Absent, Num(0), Num(300)}, total \in {Absent, Num(400)},
              profit \in {Absent, Num(0), Num(1680)},
              deductions \in {Absent, Num(0), Num(50)}}
        : isSimplifiedResponse(object)}

StandardObjects ==
    {[EmptyObject EXCEPT
         !.f = [@ EXCEPT !["taxpayerName"] = name, !["taxYear"] = year,
                         !["totalIncome"] = income, !["taxableAmount"] = taxable,
                         !["businessType"] = type],
         !.detailedBreakdown = breakdown]
        : name \in {Absent, Str("ACME LTD"), Str(""), Num(7)},
          year \in {Absent, Num(2023), Str("2023")},
          income \in {Absent, Num(1000), Str("1000")},
          taxable \in {Absent, Num(700)},
          type \in {Absent, Str("Trading")},
          breakdown \in {NoBreakdown,
                         Nested([revenue |-> Num(5000)], BreakdownFields)}}

HandlersInit ==
    /\ Constructed
    /\ preferredProvider = "ollama"
    /\ unitPc = "handle"
    /\ parsedObject \in StatementObjects \cup SimplifiedObjects \cup StandardObjects
    /\ sourceText \in {<<>>, StatementDocument}
    /\ rawResponse = EmptyContent
    /\ stages = <<>>
    /\ givenRecord = getDefaultTaxData
    /\ validationResults = <<>>
    /\ returned = <<>>

\* const financialData = this.extractFinancialData(data); reading the
\* Account of a null item throws
ExtractFinancialData ==
    /\ unitPc = "handle"
    /\ classify(parsedObject) = "FinancialStatement"
    /\ stages' = <<"extractFinancialData">>
    /\ LET financialData == extractFinancialData(parsedObject)
       IN  IF \E k \in DOMAIN financialData : financialData[k] = Thrown
           THEN /\ unitPc' = "threw"
                /\ UNCHANGED returned
           ELSE /\ unitPc' = "extracted"
                /\ returned' = <<financialData>>
    /\ UNCHANGED <<rawResponse, sourceText, parsedObject, givenRecord,
                   validationResults, programVars>>

\* the record parseFinancialStatementFormat makes of the financial data
ParseFinancialStatementFormat ==
    /\ unitPc = "extracted"
    /\ stages' = Append(stages, "parseFinancialStatementFormat")
    /\ returned' = Append(returned,
                          parseFinancialStatementFormat(parsedObject, sourceText).data)
    /\ unitPc' = "done"
    /\ UNCHANGED <<rawResponse, sourceText, parsedObject, givenRecord,
                   validationResults, programVars>>

\* this.parseSimplifiedResponse(extractedData, text)
ParseSimplifiedResponse ==
    /\ unitPc = "handle"
    /\ classify(parsedObject) = "Simplified"
    /\ stages' = <<"parseSimplifiedResponse">>
    /\ returned' = <<parseSimplifiedResponse(parsedObject, sourceText)>>
    /\ unitPc' = "done"
    /\ UNCHANGED <<rawResponse, sourceText, parsedObject, givenRecord,
                   validationResults, programVars>>

\* this.processStandardFormat(extractedData, text)
ProcessStandardFormat ==
    /\ unitPc = "handle"
    /\ classify(parsedObject) = "Standard"
    /\ stages' = <<"processStandardFormat">>
    /\ returned' = <<processStandardFormat(parsedObject, sourceText)>>
    /\ unitPc' = "done"
    /\ UNCHANGED <<rawResponse, sourceText, parsedObject, givenRecord,
                   validationResults, programVars>>

HandlersNext ==
    \/ ExtractFinancialData
    \/ ParseFinancialStatementFormat
    \/ ParseSimplifiedResponse
    \/ ProcessStandardFormat

HandlersSpec == HandlersInit /\ [][HandlersNext]_vars

(***************************************************************************)
(* RAGExtractorService.initialize() called several times, the calls        *)
(* overlapping as their awaits allow, with extractTaxData calls of the     *)
(* service in between.  RAGExtractor.initialize() catches what its         *)
(* providers throw, so the call awaited always resolves.                   *)
(***************************************************************************)
frameOfService ==
    <<configVars, extractorVars, initVars, callVars, unitVars, uploadVars, mongoVars>>

ServiceSpecInit ==
    /\ Constructed
    /\ UnitIdle
    /\ preferredProvider = "ollama"

\* initialize() up to its await: the guard on isInitialized, then
\* this.ragExtractor = new RAGExtractor() and the call of its initialize()
CallInitialize(c) ==
    /\ initializers[c].pc = "idle"
    /\ IF isInitialized
       THEN /\ initializers' = [initializers EXCEPT ![c].pc = "returned"]
            /\ UNCHANGED <<extractors, held, ragExtractor>>
       ELSE /\ extractors' = Append(extractors, "initializing")
            /\ held' = Len(extractors) + 1
            /\ ragExtractor' = "extractor"
            /\ initializers' =
                   [initializers EXCEPT ![c] = [pc |-> "awaiting",
                                               made |-> Len(extractors) + 1]]
    /\ UNCHANGED <<isInitialized, served, frameOfService>>

\* await this.ragExtractor.initialize() resolves: this.isInitialized = true
InitializeReturns(c) ==
    /\ initializers[c].pc = "awaiting"
    /\ extractors' = [extractors EXCEPT ![initializers[c].made] = "initialized"]
    /\ isInitialized' = TRUE
    /\ initializers' = [initializers EXCEPT ![c].pc = "returned"]
    /\ UNCHANGED <<ragExtractor, held, served, frameOfService>>

\* RAGExtractorService.extractTaxData: the default without an extractor,
\* the extractor's extractTaxData otherwise
ServiceExtractTaxData ==
    /\ served' = served \cup {IF ragExtractor = "null" THEN "service"
                               ELSE extractors[held]}
    /\ served' # served
    /\ UNCHANGED <<serviceVars, extractors, held, initializers, frameOfService>>

ServiceSpecNext ==
    \/ \E c \in ServiceCalls : CallInitialize(c)
    \/ \E c \in ServiceCalls : InitializeReturns(c)
    \/ ServiceExtractTaxData

ServiceSpec == ServiceSpecInit /\ [][ServiceSpecNext]_vars

(***************************************************************************)
(* UploadController.uploadDocument, one request after another, beside the  *)
(* calls of RAGExtractorService.initialize() that decide what              *)
(* getExtractor() hands it.  The extractor's extractTaxData does not       *)
(* reject, so what the controller awaits is one of the records the         *)
(* extractor returns.                                                      *)
(***************************************************************************)
\* how many documents the requests examined save
MaxUploads == 2

\* the records ragExtractor.extractTaxData resolves to: the default when no
\* provider is live or all have failed, and what the answers parse to
ExtractedRecords ==
    {getDefaultTaxData} \cup
    {parseAIResponse(c, d).data :
        <<c, d>> \in {cd \in AnsweredContents \X SubmittedDocuments :
                         ~parseAIResponse(cd[1], cd[2]).threw}}

\* the object literal of the controller's three fallbacks
DefaultStructure ==
    TaxData(Str("Not provided"), Num(CurrentYear), Num(0), Num(0), Num(0), Num(0),
            Str("Not provided"), Str("Not specified"))

\* the callback of some(): a string other than the two placeholders, or a
\* number other than 0
MeaningfulValue(value) ==
    \/ value.t = "string" /\ value.s \notin {"Not provided", "Not specified"}
    \/ IsNumberType(value) /\ value # Num(0)

\* Object.entries(extractedData).some(...)
hasData(data) ==
    \E key \in {k \in DOMAIN data : data[k].t # "absent"} : MeaningfulValue(data[key])

frameOfUpload ==
    <<serviceVars, instanceVars, configVars, extractorVars, initVars, callVars,
      unitVars, mongoVars>>

UploadInit ==
    /\ Constructed
    /\ UnitIdle
    /\ preferredProvider = "ollama"

\* the request arrives: 400 without a file, else validateFile and the
\* call of parseDocument
UploadDocument ==
    /\ uploadPc \in {"idle", "200", "400", "500"}
    /\ Len(savedDocuments) < MaxUploads
    /\ \E file \in {"none", "invalid", "valid"} :
          uploadPc' = CASE file = "none" -> "400"
                        [] file = "invalid" -> "500"
                        [] OTHER -> "parsing"
    /\ UNCHANGED <<extraction, extractedData, extractionMethod, savedDocuments,
                   frameOfUpload>>

\* parseDocument settles; then getExtractor(), extractionMethod = 'manual'
\* and either the call of extractTaxData or the default structure
ParseDocumentSettles ==
    /\ uploadPc = "parsing"
    /\ \E parsed \in BOOLEAN :
          IF ~parsed
          THEN /\ uploadPc' = "500"
               /\ UNCHANGED <<extractedData, extractionMethod>>
          ELSE /\ extractionMethod' = "manual"
               /\ IF ragExtractor # "null"
                  THEN /\ uploadPc' = "extracting"
                       /\ UNCHANGED extractedData
                  ELSE /\ uploadPc' = "saving"
                       /\ extractedData' = DefaultStructure
    /\ UNCHANGED <<extraction, savedDocuments, frameOfUpload>>

\* extractTaxData resolves: hasData decides between 'ai' with the record
\* and 'manual' with the default structure; then the call of saveDocument
ExtractionSettles ==
    /\ uploadPc = "extracting"
    /\ \E record \in ExtractedRecords :
          /\ extraction' = Return(record)
          /\ IF hasData(record)
             THEN /\ extractedData' = record
                  /\ extractionMethod' = "ai"
             ELSE /\ extractedData' = DefaultStructure
                  /\ UNCHANGED extractionMethod
    /\ uploadPc' = "saving"
    /\ UNCHANGED <<savedDocuments, frameOfUpload>>

\* saveDocument settles: the document stored and 200, or 500
SaveDocumentSettles ==
    /\ uploadPc = "saving"
    /\ \E saved \in BOOLEAN :
          IF saved
          THEN /\ savedDocuments' =
                      Append(savedDocuments,
                             [extractedData |-> extractedData,
                              extractionMethod |-> extractionMethod])
               /\ uploadPc' = "200"
          ELSE /\ uploadPc' = "500"
               /\ UNCHANGED savedDocuments
    /\ UNCHANGED <<extraction, extractedData, extractionMethod, frameOfUpload>>

UploadNext ==
    \/ \E c \in ServiceCalls : CallInitialize(c)
    \/ \E c \in ServiceCalls : InitializeReturns(c)
    \/ UploadDocument
    \/ ParseDocumentSettles
    \/ ExtractionSettles
    \/ SaveDocumentSettles

UploadSpec == UploadInit /\ [][UploadNext]_vars

(***************************************************************************)
(* MongoService: getCollection and initializeConnection called by several  *)
(* callers whose awaits overlap.  The executor of the promise runs inside  *)
(* the call up to await this.client.connect(); the configured mongoUri has *)
(* a default, so the executor reaches that await.  A caller resumed by a   *)
(* settled promise runs before the next answer of the server arrives.      *)
(***************************************************************************)
\* how many connection attempts the calls examined make
MaxAttempts == 3

\* every call starts an attempt of its own
StartsAttempt(connecting, promise) == FALSE

\* if (this.isConnecting && this.connectionPromise) return this.connectionPromise
JoinsAttempt(connecting, promise) == connecting /\ promise # 0

\* the attempts whose promise is not settled
InFlight == {i \in 1..Len(promises) : promises[i] \in {"connecting", "pinging"}}

\* the callers suspended at an await of initializeConnection's promise
AwaitingConnection == {"awaiting", "awaitingDirect"}

\* a caller whose promise has settled has not run on yet
ResumePending ==
    \E c \in MongoCallers :
        /\ callers[c].pc \in AwaitingConnection
        /\ promises[callers[c].awaits] \in {"resolved", "rejected"}

frameOfMongo ==
    <<serviceVars, instanceVars, configVars, extractorVars, initVars, callVars,
      unitVars, uploadVars>>

MongoInit ==
    /\ Constructed
    /\ UnitIdle
    /\ preferredProvider = "ollama"

\* initializeConnection() up to the promise it returns, awaited by caller c
InitializeConnectionBy(c, suspended) ==
    IF JoinsAttempt(isConnecting, connectionPromise)
    THEN /\ callers' = [callers EXCEPT ![c] = [pc |-> suspended,
                                               awaits |-> connectionPromise]]
         /\ UNCHANGED <<mongoClient, mongoDb, isConnecting, connectionPromise, promises>>
    ELSE /\ Len(promises) < MaxAttempts
         /\ isConnecting' = TRUE
         /\ promises' = Append(promises, "connecting")
         /\ connectionPromise' = Len(promises) + 1
         /\ mongoClient' = "client"
         /\ callers' = [callers EXCEPT ![c] = [pc |-> suspended,
                                               awaits |-> Len(promises) + 1]]
         /\ UNCHANGED mongoDb

\* getCollection(name): the collection at once when this.db is set
GetCollection(c) ==
    /\ callers[c].pc = "idle"
    /\ IF mongoDb # "null"
       THEN /\ callers' = [callers EXCEPT ![c].pc = "returned"]
            /\ UNCHANGED <<mongoClient, mongoDb, isConnecting, connectionPromise,
                           promises>>
       ELSE InitializeConnectionBy(c, "awaiting")
    /\ UNCHANGED frameOfMongo

\* initializeConnection() called by the server at start
InitializeConnection(c) ==
    /\ callers[c].pc = "idle"
    /\ InitializeConnectionBy(c, "awaitingDirect")
    /\ UNCHANGED frameOfMongo

\* the catch and the finally of the executor
AttemptFails(i) ==
    /\ mongoClient' = "null"
    /\ mongoDb' = "null"
    /\ promises' = [promises EXCEPT ![i] = "rejected"]
    /\ isConnecting' = FALSE

\* await this.client.connect() settles; this.db = this.client.db(...) and
\* the ping sent
ConnectSettles ==
    /\ ~ResumePending
    /\ \E i \in 1..Len(promises), connected \in BOOLEAN :
          /\ promises[i] = "connecting"
          /\ IF connected
             THEN /\ mongoDb' = "db"
                  /\ promises' = [promises EXCEPT ![i] = "pinging"]
                  /\ UNCHANGED <<mongoClient, isConnecting>>
             ELSE AttemptFails(i)
    /\ UNCHANGED <<connectionPromise, callers, frameOfMongo>>

\* await this.db.command({ ping: 1 }) settles: resolve() and the finally
PingSettles ==
    /\ ~ResumePending
    /\ \E i \in 1..Len(promises), answered \in BOOLEAN :
          /\ promises[i] = "pinging"
          /\ IF answered
             THEN /\ promises' = [promises EXCEPT ![i] = "resolved"]
                  /\ isConnecting' = FALSE
                  /\ UNCHANGED <<mongoClient, mongoDb>>
             ELSE AttemptFails(i)
    /\ UNCHANGED <<connectionPromise, callers, frameOfMongo>>

\* a caller runs on from its await: the error of the attempt, 'Failed to
\* connect to MongoDB' when this.db is null, or the collection
CallerResumes(c) ==
    /\ callers[c].pc \in AwaitingConnection
    /\ promises[callers[c].awaits] \in {"resolved", "rejected"}
    /\ callers' =
          [callers EXCEPT ![c].pc =
              IF promises[callers[c].awaits] = "rejected" THEN "rejected"
              ELSE IF callers[c].pc = "awaiting" /\ mongoDb = "null" THEN "failed"
              ELSE "returned"]
    /\ UNCHANGED <<mongoClient, mongoDb, isConnecting, connectionPromise, promises,
                   frameOfMongo>>

\* the caller's call is over; it may call again
CallerDone(c) ==
    /\ callers[c].pc \in {"returned", "rejected", "failed"}
    /\ callers' = [callers EXCEPT ![c] = [pc |-> "idle", awaits |-> 0]]
    /\ UNCHANGED <<mongoClient, mongoDb, isConnecting, connectionPromise, promises,
                   frameOfMongo>>

MongoNext ==
    \/ \E c \in MongoCallers : GetCollection(c)
    \/ \E c \in MongoCallers : InitializeConnection(c)
    \/ ConnectSettles
    \/ PingSettles
    \/ \E c \in MongoCallers : CallerResumes(c)
    \/ \E c \in MongoCallers : CallerDone(c)

MongoSpec == MongoInit /\ [][MongoNext]_vars

(***************************************************************************)
(* The claims.                                                             *)
(***************************************************************************)
NoDuplicates(seq) == \A i, j \in 1..Len(seq) : i # j => seq[i] # seq[j]

\* C1: extractTaxData, of the extractor and of the service, never throws to
\* its caller and what it returns is a record, whatever the providers do
\* (return a text, return nothing, throw); and parseAIResponse gives a record
\* for every text a provider answered with, never an error.
C1_AlwaysReturnsRecord ==
    /\ exPc # "threw"
    /\ exPc = "returned" => DOMAIN result = RecordKeys
    /\ reply.kind \in {"text", "empty"} =>
           /\ ~parseAIResponse(reply.content, documentText).threw
           /\ DOMAIN parseAIResponse(reply.content, documentText).data = RecordKeys

\* a provider threw, the next answered with an object whose normalisation
\* throws (a null item of Profit_and_Loss), and a record was returned
C1_Witness ==
    /\ exPc = "returned"
    /\ returnedBy \in Providers
    /\ Len(invoked) >= 2
    /\ reply = Reply("text", NullItemContent)

\* C2: providers are tried strictly in try-list order, one at a time, each at
\* most once per call: the providers invoked so far are a prefix of the
\* try-list without a repetition, and the provider that returned is the
\* last one invoked.
C2_InOrderEachOnce ==
    exPc \in {"awaiting", "returned"} /\ returnedBy # "service" =>
        /\ Len(invoked) <= Len(providersToTry)
        /\ invoked = SubSeq(providersToTry, 1, Len(invoked))
        /\ NoDuplicates(invoked)
        /\ returnedBy \in Providers => invoked[Len(invoked)] = returnedBy

\* C3: every record the extraction returns has its four numeric fields
\* finite, on every path.
C3_NumericFieldsFinite ==
    exPc = "returned" => \A k \in NumericFields : IsFiniteNumber(result[k])

\* C4: every record the extraction returns has its eight canonical fields
\* defined, none undefined or null.
C4_CanonicalFieldsDefined ==
    exPc = "returned" => \A k \in CanonicalFields : IsDefined(result[k])

\* C5: when no provider is live or every provider of the try-list threw, and
\* when the service holds no extractor, what is returned is the documented
\* default record ("Not provided", "Not provided", "Not specified", zero
\* amounts, the current year).
C5_DocumentedDefault ==
    exPc = "returned" /\ returnedBy \in {"default", "service"} =>
        result = TaxData(Str("Not provided"), Num(CurrentYear), Num(0), Num(0), Num(0),
                         Num(0), Str("Not provided"), Str("Not specified"))

\* C6: a provider whose call gave a response with no text in it (empty, or
\* lacking the part that holds the text) counts as failed: no record is
\* returned from that response, for Ollama, OpenAI and Claude alike.
C6_EmptyResponseIsFailure ==
    exPc = "returned" /\ returnedBy \in Providers =>
        reply.kind \notin {"empty", "malformed"}

\* C7: getProvidersToTry gives the preferred provider first, when it is
\* registered, and then the others in registration order, otherwise the
\* registered providers in registration order; either way a permutation,
\* free of duplicates, of the set of registered providers.
C7_TryListIsPermutation ==
    LET tryList == getProvidersToTry(availableProviders, preferredProvider)
    IN  /\ NoDuplicates(tryList)
        /\ Elements(tryList) = Elements(availableProviders)
        /\ Len(tryList) = Cardinality(Elements(availableProviders))
        /\ preferredProvider \in Elements(availableProviders) =>
               /\ tryList[1] = preferredProvider
               /\ SubSeq(tryList, 2, Len(tryList)) =
                      SelectSeq(availableProviders,
                                LAMBDA p : p # preferredProvider)
        /\ preferredProvider \notin Elements(availableProviders) =>
               tryList = availableProviders

\* C8: registering is idempotent: after any sequence of initialize() calls,
\* availableProviders holds each provider name at most once.
C8_RegisteredAtMostOnce == NoDuplicates(availableProviders)

\* C9: initialize() always terminates, every probe being bounded by a timer:
\* while initialize() runs, a step of it (an answer to a probe, a timer
\* firing, the resolution) can always be taken, also when a backend never
\* answers.
C9_InitializeCanProceed == initPc = "running" => ENABLED InitializeStep

\* C10: a provider whose construction or probe throws or times out is not
\* added to availableProviders and its handle ends null, the handles and the
\* registration of the others stay as they are, and initialize() does not
\* reject.
C10_FailedProviderExcluded ==
    [][/\ initPc' # "rejected"
       /\ \A p \in Providers :
             (/\ step[p] \in {"llm", "llmSilent", "probe"}
              /\ step'[p] = "done"
              /\ availableProviders' # Append(availableProviders, p))
             => /\ Handle(p)' = "null"
                /\ availableProviders' = availableProviders
                /\ \A q \in Providers \ {p} : Handle(q)' = Handle(q)]_vars

\* the parses run so far, and those with the text extraction
ParsesRun == SelectSeq(stages, LAMBDA x : x \in {"direct", "cleaned", "rescue"})
CascadeRun == SelectSeq(stages, LAMBDA x : x \in {"direct", "cleaned", "rescue", "text"})
\* whether the parse of a stage throws on the response examined
StageThrows(stage) ==
    CASE stage = "direct" -> JSONParse(rawResponse.payload, rawResponse.defects).threw
      [] stage = "cleaned" ->
             \/ cleanJSONString(rawResponse).threw
             \/ JSONParse(rawResponse.payload, cleanJSONString(rawResponse).defects).threw
      [] stage = "rescue" -> JSONParse(rawResponse.payload, RescueString(rawResponse)).threw

\* C11 as stated: the four stages run in order, each only after the one
\* before threw; once a stage has given a value no later stage runs, the
\* text extraction included, and the record is made from that value.
C11_StrictlyStaged ==
    /\ CascadeRun = SubSeq(<<"direct", "cleaned", "rescue", "text">>, 1, Len(CascadeRun))
    /\ \A i \in 2..Len(CascadeRun) : StageThrows(CascadeRun[i - 1])
    /\ unitPc = "done" =>
           \/ CascadeRun[Len(CascadeRun)] = "text"
           \/ ~StageThrows(CascadeRun[Len(CascadeRun)])

\* C11, amended: the three parses run in order, each only after the one
\* before threw, and the value mapped is that of the first parse that did
\* not throw; the text extraction runs last and at most once, and it runs
\* exactly when all three parses threw, or the value parsed is falsy, or
\* mapping the value threw.
C11_StagedParses ==
    /\ ParsesRun = SubSeq(<<"direct", "cleaned", "rescue">>, 1, Len(ParsesRun))
    /\ \A i \in 2..Len(ParsesRun) : StageThrows(ParsesRun[i - 1])
    /\ unitPc \in {"normalize", "done"} /\ ~safeJSONParse(rawResponse).threw =>
           /\ ~StageThrows(ParsesRun[Len(ParsesRun)])
           /\ ParsesRun[Len(ParsesRun)] = safeJSONParse(rawResponse).stage
    /\ \A i \in 1..Len(stages) : stages[i] = "text" => i = Len(stages)
    /\ unitPc = "done" =>
           ("text" \in Elements(stages)
              <=> \/ \A stage \in {"direct", "cleaned", "rescue"} : StageThrows(stage)
                  \/ parsedObject.jt \in {"falsy", "primitive"}
                  \/ MapShape(classify(parsedObject), parsedObject,
                              TextOrContent(sourceText, rawResponse)).threw)

\* the fenced response with a trailing comma is read by the cleaned parse,
\* after the direct parse threw, and gives totalIncome 500, totalExpenses 300
C11_Witness ==
    /\ unitPc = "done"
    /\ rawResponse = FencedContent
    /\ stages = <<"direct", "cleaned", "Standard", "applySoftConstraints">>
    /\ returned[1]["totalIncome"] = Num(500)
    /\ returned[1]["totalExpenses"] = Num(300)

\* C12: every record parseAIResponse returns has passed through
\* applySoftConstraints, whichever path produced it, the text extraction
\* included: the call was made on it, and so the record is one that
\* applySoftConstraints leaves as it is.
C12_EveryRecordConstrained ==
    unitPc = "done" =>
        /\ stages[Len(stages)] = "applySoftConstraints"
        /\ returned[1] = applySoftConstraints(returned[1])

GivenAmount(field) == validateNumericValue(Read(givenRecord[field]))

\* C14: with totalIncome > 0 and totalExpenses > 3 x totalIncome the
\* totalExpenses returned is the smaller of totalExpenses and
\* 5 x totalIncome, so never above 5 x totalIncome; otherwise totalExpenses
\* is returned unchanged; totalIncome is returned unchanged.
C14_ExpensesCapped ==
    unitPc \in {"constrained", "done"} =>
        LET income == GivenAmount("totalIncome")
            expenses == GivenAmount("totalExpenses")
            constrained == returned[1]
        IN  /\ constrained["totalIncome"] = income
            /\ IF income.n > 0 /\ expenses.n > 3 * income.n
               THEN /\ constrained["totalExpenses"].n <= 5 * income.n
                    /\ constrained["totalExpenses"] =
                           IF expenses.n > 5 * income.n
                           THEN Num(5 * income.n) ELSE expenses
               ELSE constrained["totalExpenses"] = expenses

\* {totalIncome: 1000, totalExpenses: 10000} gives totalExpenses 5000
C14_Witness ==
    /\ unitPc = "constrained"
    /\ givenRecord["totalIncome"] = Num(1000)
    /\ givenRecord["totalExpenses"] = Num(10000)
    /\ returned[1]["totalExpenses"] = Num(5000)
    /\ returned[1]["totalIncome"] = Num(1000)

\* C15: taxableAmount is replaced by the residual (totalIncome -
\* totalExpenses - totalDeductions of the record returned) exactly when the
\* two differ by more than max(1000, 0.1 x totalIncome), taxableAmount is 0
\* and the residual is not; in every other case a finite taxableAmount is
\* returned unchanged, so one that is not 0 is never overridden.
C15_TaxableReplaced ==
    unitPc \in {"constrained", "done"} =>
        LET constrained == returned[1]
            taxable == GivenAmount("taxableAmount")
            residual == constrained["totalIncome"].n - constrained["totalExpenses"].n
                            - constrained["totalDeductions"].n
            difference == IF residual > taxable.n
                          THEN residual - taxable.n ELSE taxable.n - residual
            replaced == /\ difference > 1000
                        /\ difference * 10 > constrained["totalIncome"].n
                        /\ taxable.n = 0
                        /\ residual # 0
        IN  /\ constrained["taxableAmount"] = IF replaced THEN Num(residual) ELSE taxable
            /\ taxable.n # 0 => constrained["taxableAmount"] = taxable

\* a taxable amount of 0 was replaced by the residual 19700
C15_Witness ==
    /\ unitPc = "constrained"
    /\ givenRecord["totalIncome"] = Num(20000)
    /\ givenRecord["totalExpenses"] = Num(300)
    /\ givenRecord["totalDeductions"] = Num(0)
    /\ givenRecord["taxableAmount"] = Num(0)
    /\ returned[1]["taxableAmount"] = Num(19700)

\* the correction messages of a kind that performCrossValidation recorded
Corrections(kind) == SelectSeq(validationResults[1].corrections, LAMBDA c : c = kind)
\* |a - b|
Distance(a, b) == IF a > b THEN a - b ELSE b - a

\* C16: when validation.revenue is a positive number and totalIncome is
\* exactly 0 or differs from it by more than 10% of validation.revenue,
\* totalIncome is replaced by validation.revenue, in the record returned as
\* well, and one correction message is recorded; when the two differ by 10%
\* or less and totalIncome is not 0, totalIncome is left as it was and no
\* message is recorded.
C16_RevenueCorrected ==
    unitPc \in {"constrain", "done"} /\ parsedObject.validationData.st = "object" =>
        LET revenue == Read(parsedObject.validationData.v["revenue"])
            income == Read(parsedObject.f["totalIncome"])
            over == Distance(revenue.n, income.n) * 10 > revenue.n
        IN  revenue.t = "number" /\ revenue.n > 0 /\ income.t = "number" =>
                IF income.n = 0 \/ over
                THEN /\ givenRecord["totalIncome"] = revenue
                     /\ Len(Corrections("Revenue corrected")) = 1
                     /\ unitPc = "done" => returned[1]["totalIncome"] = revenue
                ELSE /\ givenRecord["totalIncome"] = income
                     /\ Len(Corrections("Revenue corrected")) = 0
                     /\ unitPc = "done" => returned[1]["totalIncome"] = income

\* validation.revenue 1000 replaced a totalIncome of 899, more than 10% off
C16_Witness ==
    /\ unitPc = "done"
    /\ parsedObject.validationData.v["revenue"] = Num(1000)
    /\ parsedObject.f["totalIncome"] = Num(899)
    /\ validationResults[1].correctedRevenue = Num(1000)
    /\ returned[1]["totalIncome"] = Num(1000)

\* C17: when validation.profitBeforeTax is a number, 0 and negative numbers
\* included, and differs from taxableAmount by more than 100, taxableAmount
\* is replaced by it and one correction message is recorded; a difference
\* of 100 or less leaves taxableAmount as it was.
C17_ProfitCorrected ==
    unitPc \in {"constrain", "done"} /\ parsedObject.validationData.st = "object" =>
        LET profit == Read(parsedObject.validationData.v["profitBeforeTax"])
            taxable == Read(parsedObject.f["taxableAmount"])
        IN  profit.t = "number" /\ taxable.t = "number" =>
                IF Distance(profit.n, taxable.n) > 100
                THEN /\ givenRecord["taxableAmount"] = profit
                     /\ Len(Corrections("Profit Before Tax corrected")) = 1
                ELSE /\ givenRecord["taxableAmount"] = taxable
                     /\ Len(Corrections("Profit Before Tax corrected")) = 0

\* the shapes whose handler was called
ShapesHandled ==
    SelectSeq(stages, LAMBDA x : x \in {"Enhanced", "FinancialStatement", "Simplified",
                                         "Standard"})
\* the shape the stated precedence gives the parsed object
ShapeByPrecedence ==
    LET has(key) == parsedObject.f[key].t # "absent"
        statement == \/ parsedObject.Balance_Sheet
                     \/ parsedObject.Profit_and_Loss.st # "absent"
    IN  CASE parsedObject.validationData.st # "absent" -> "Enhanced"
          [] parsedObject.validationData.st = "absent" /\ statement -> "FinancialStatement"
          [] /\ parsedObject.validationData.st = "absent" /\ ~statement
             /\ ~has("taxpayerName")
             /\ \E key \in {"Revenue", "ProfitBeforeTax", "Expenses", "Income", "Sales",
                             "Turnover"} : has(key) -> "Simplified"
          [] OTHER -> "Standard"

\* C18: every parsed object is given exactly one shape, by the precedence
\* Enhanced (it has validationData), FinancialStatement (Balance_Sheet or
\* Profit_and_Loss), Simplified (a simplified key and none of taxpayerName,
\* Balance_Sheet, Profit_and_Loss), Standard; an object passing several
\* tests is handled by the handler of the earliest one only.
C18_ShapePrecedence ==
    /\ Len(ShapesHandled) <= 1
    /\ /\ unitPc \in {"text", "done"}
       /\ ~safeJSONParse(rawResponse).threw
       /\ parsedObject.jt \in {"object", "array"}
       => /\ ShapesHandled = <<ShapeByPrecedence>>
          /\ unitPc = "done" /\ "text" \notin Elements(stages) =>
                 returned = <<MapShape(ShapeByPrecedence, parsedObject,
                                       TextOrContent(sourceText, rawResponse)).data>>

\* an object with both validationData and Profit_and_Loss went to the
\* Enhanced handler and to no other
C18_Witness ==
    /\ unitPc = "done"
    /\ rawResponse = EnhancedStatementContent
    /\ parsedObject.validationData.st # "absent"
    /\ parsedObject.Profit_and_Loss.st # "absent"
    /\ ShapesHandled = <<"Enhanced">>

\* C19: the text extraction negates a parenthesized number: from a document
\* holding "Profit before tax (1,680)" it returns taxableAmount -1680.
C19_ParenthesizedNegated ==
    /\ unitPc = "done"
    /\ stages[Len(stages)] = "text"
    /\ sourceText = StatementDocument
    => returned[1]["taxableAmount"] = Num(-1680)

\* C20: a step of extractTaxData, generateAnnualReport or testConnection
\* changes none of availableProviders, preferredProvider and the client
\* handles, and leaves nothing behind in the extractor: the document text
\* is not kept, so the vector store is after the step what it was before.
C20_RequestsLeaveNoState ==
    [][callVars' # callVars =>
          /\ UNCHANGED <<availableProviders, preferredProvider, llm, openai, claude,
                         embeddings>>
          /\ vectorStore' = vectorStore]_vars

\* C21: the record validateExtractedData returns has no validationData
\* property, whatever validationData the parsed object carried (an object,
\* an object without values, null).
C21_ValidationDataRemoved ==
    unitPc = "done" => returned[1]["validationData"] = Absent

\* the record still carried validationData after the corrections, and the
\* record returned does not
C21_Witness ==
    /\ unitPc = "done"
    /\ parsedObject.validationData.st = "object"
    /\ givenRecord["validationData"] = SomeObject
    /\ returned[1]["validationData"] = Absent

\* the Profit_and_Loss items whose Account a pattern matches, in order
MatchedItems(pattern) ==
    SelectSeq(parsedObject.Profit_and_Loss.items,
              LAMBDA item : ~item.isNull /\ AccountTest(pattern, item.Account))
\* the amount of the matched item by the priority Amount, Expenses, Cost
AmountByPriority(pattern) ==
    LET matched == MatchedItems(pattern)
        numeric == SelectSeq(<<"Amount", "Expenses", "Cost">>,
                             LAMBDA field : matched[1].v[field].t = "number")
    IN  IF matched = <<>> THEN Num(0)
        ELSE IF numeric = <<>> THEN Num(0)
        ELSE matched[1].v[numeric[1]]

\* C22: for a FinancialStatement-shaped object the amount of every matched
\* item (revenue, expenses, profit before tax, deductions) is the first of
\* its fields Amount, Expenses, Cost that holds a number, also when the
\* item carries both Amount and Expenses; an unmatched label or an item
\* without a numeric field gives 0.
C22_AmountFieldPriority ==
    unitPc \in {"extracted", "done"} /\ "extractFinancialData" \in Elements(stages) =>
        \A pattern \in {"revenue", "expenses", "profitBeforeTax", "deductions"} :
            returned[1][pattern] = AmountByPriority(pattern)

\* the values a Simplified-shaped object holds under the keys of a figure
PresentValues(keys) ==
    {Read(parsedObject.f[key]) : key \in {k \in keys : parsedObject.f[k].t # "absent"}}

\* C23: for a Simplified-shaped object a figure comes from the parsed
\* object whenever one of its keys is present, the value 0 included, and
\* from the text scan of the document only when all its keys are absent.
\* Stated on totalIncome and totalDeductions, which the soft constraints
\* return as they are given when they are finite numbers.
C23_KeysBeforeTextScan ==
    unitPc = "done" /\ stages = <<"parseSimplifiedResponse">> =>
        /\ LET values == PresentValues({"Revenue", "Income", "Sales", "Turnover"})
           IN  IF values = {}
               THEN returned[1]["totalIncome"] =
                        validateNumericValue(extractAmountFromText(sourceText, "revenue"))
               ELSE returned[1]["totalIncome"] \in values
        /\ LET values == PresentValues({"Deductions", "CapitalAllowances"})
           IN  IF values = {}
               THEN returned[1]["totalDeductions"] =
                        validateNumericValue(extractAmountFromText(sourceText, "deductions"))
               ELSE returned[1]["totalDeductions"] \in values

\* the field of the parsed object when it is there with the type stated,
\* the default otherwise
TypedOrDefault(field, type, default) ==
    IF parsedObject.f[field].t = type THEN parsedObject.f[field] ELSE default

\* C24: for a Standard-shaped object each field of the result is the parsed
\* object's field when it is present with the correct type (number for the
\* amounts and taxYear, string for taxpayerName, taxId, businessType) and
\* the default otherwise (0, the current year, "Not provided", and "Not
\* specified" for businessType); no other key, detailedBreakdown included,
\* has an influence.  Stated on the fields the soft constraints return as
\* given.
C24_StandardFields ==
    unitPc = "done" /\ stages = <<"processStandardFormat">> =>
        /\ returned[1]["taxpayerName"] =
               TypedOrDefault("taxpayerName", "string", Str("Not provided"))
        /\ returned[1]["taxId"] = TypedOrDefault("taxId", "string", Str("Not provided"))
        /\ returned[1]["businessType"] =
               TypedOrDefault("businessType", "string", Str("Not specified"))
        /\ returned[1]["taxYear"] = TypedOrDefault("taxYear", "number", Num(CurrentYear))
        /\ returned[1]["totalIncome"] = TypedOrDefault("totalIncome", "number", Num(0))
        /\ returned[1]["totalDeductions"] =
               TypedOrDefault("totalDeductions", "number", Num(0))

\* the fields of the record that the corrections changed
FieldsReplaced == {k \in RecordKeys : givenRecord[k] # SpreadObject(parsedObject)[k]}

\* C25: cross-validation changes at most totalIncome and taxableAmount, and
\* only to the validation values; each of the two rules decides against
\* the original record, as it would without the other; there are as many
\* correction messages as fields replaced; a warning changes no value; and
\* the soft constraints that follow keep a corrected number.
C25_CorrectionsOnly ==
    unitPc \in {"constrain", "done"} /\ parsedObject.validationData.st = "object" =>
        LET validation == parsedObject.validationData.v
            original == SpreadObject(parsedObject)
            results == validationResults[1]
        IN  /\ FieldsReplaced \subseteq {"totalIncome", "taxableAmount"}
            /\ "totalIncome" \in FieldsReplaced =>
                   givenRecord["totalIncome"] = validation["revenue"]
            /\ "taxableAmount" \in FieldsReplaced =>
                   givenRecord["taxableAmount"] = validation["profitBeforeTax"]
            /\ results.correctedRevenue =
                   performCrossValidation([validation EXCEPT !["profitBeforeTax"] = Absent],
                                          original).correctedRevenue
            /\ results.correctedProfitBeforeTax =
                   performCrossValidation([validation EXCEPT !["revenue"] = Absent],
                                          original).correctedProfitBeforeTax
            /\ Len(results.corrections) = Cardinality(FieldsReplaced)
            /\ unitPc = "done" =>
                   \A k \in FieldsReplaced :
                       givenRecord[k].t = "number" => returned[1][k] = givenRecord[k]

\* record {totalIncome 0, taxableAmount 0} with validation {revenue 50000,
\* profitBeforeTax 15000}: two corrections, and the record returned has
\* totalIncome 50000 and taxableAmount 15000
C25_Witness ==
    /\ unitPc = "done"
    /\ parsedObject.f["totalIncome"] = Num(0)
    /\ parsedObject.f["taxableAmount"] = Num(0)
    /\ parsedObject.validationData.v["revenue"] = Num(50000)
    /\ parsedObject.validationData.v["profitBeforeTax"] = Num(15000)
    /\ Len(validationResults[1].corrections) = 2
    /\ returned[1]["totalIncome"] = Num(50000)
    /\ returned[1]["taxableAmount"] = Num(15000)

\* the fields of the record that applySoftConstraints returned changed
FieldsConstrained == {k \in RecordKeys : returned[1][k] # givenRecord[k]}

\* C26: applySoftConstraints changes only totalExpenses, taxableAmount and
\* the amounts that are no finite number, which it resets to 0: a finite
\* totalIncome (0 and negative included, whatever the businessType) and a
\* finite totalDeductions come back unchanged, as do taxpayerName, taxYear,
\* taxId and businessType; and the record given is not modified.
C26_ConstraintsFrame ==
    /\ [](unitPc \in {"constrained", "done"} =>
            /\ \A k \in FieldsConstrained :
                   \/ k \in {"totalExpenses", "taxableAmount"}
                   \/ /\ k \in NumericFields
                      /\ ~IsFiniteNumber(givenRecord[k])
                      /\ k \in {"totalIncome", "totalDeductions"} =>
                             returned[1][k] = Num(0)
            /\ \A k \in {"totalIncome", "totalDeductions"} :
                   IsFiniteNumber(givenRecord[k]) => returned[1][k] = givenRecord[k]
            /\ \A k \in StringFields \cup {"taxYear"} : returned[1][k] = givenRecord[k])
    /\ [][givenRecord' = givenRecord]_vars

\* a negative totalIncome of a trading company came back as it was, while
\* an infinite totalExpenses was reset to 0
C26_Witness ==
    /\ unitPc = "constrained"
    /\ givenRecord["totalIncome"] = Num(-500)
    /\ givenRecord["businessType"] = Str("Trading")
    /\ givenRecord["totalExpenses"] = Infinity
    /\ returned[1]["totalIncome"] = Num(-500)
    /\ returned[1]["totalExpenses"] = Num(0)

\* C27: over any interleaving of RAGExtractorService.initialize() calls at
\* most one RAGExtractor is constructed and initialized, and whenever the
\* service holds an extractor (getExtractor() returns it) that extractor's
\* initialize() has completed.
C27_InitializedOnce ==
    /\ Len(extractors) <= 1
    /\ held # 0 => extractors[held] = "initialized"

\* C28: a document is saved with extractionMethod 'ai' only when its record
\* holds a string other than the placeholders or a non-zero amount; the
\* fully defaulted record, which extraction returns when no provider is
\* live or all have failed, is saved with 'manual'.
C28_AiOnlyWithData ==
    \A i \in 1..Len(savedDocuments) :
        /\ savedDocuments[i].extractedData = getDefaultTaxData
              => savedDocuments[i].extractionMethod = "manual"
        /\ savedDocuments[i].extractionMethod = "ai"
              => \E key \in CanonicalFields \ {"taxYear"} :
                    MeaningfulValue(savedDocuments[i].extractedData[key])

\* C29: in every state during and after initialize(), a provider named in
\* availableProviders has a client handle that is not null, so no provider
\* of the try-list fails as not initialized.
C29_AvailableHaveClients ==
    \A provider \in Elements(availableProviders) : Handle(provider) # "null"

\* a call of caller c enters initializeConnection in this step
EntersConnection(c) ==
    callers[c].pc = "idle" /\ callers'[c].pc \in AwaitingConnection

\* C30: connection set-up is single-flight.  At most one attempt is in
\* flight and every caller suspended on an unsettled promise awaits that
\* one; a call made during an attempt joins it and starts none; an attempt
\* that fails leaves client and db null and its waiting callers get the
\* error; a call made when no attempt is in flight starts a fresh one.
C30_SingleFlight ==
    /\ [](/\ Cardinality(InFlight) <= 1
          /\ \A c \in MongoCallers :
                callers[c].pc \in AwaitingConnection /\ callers[c].awaits \in InFlight
                    => callers[c].awaits = connectionPromise)
    /\ [][/\ \A c \in MongoCallers :
                EntersConnection(c) /\ InFlight # {}
                    => promises' = promises /\ callers'[c].awaits \in InFlight
          /\ \A i \in InFlight :
                promises'[i] = "rejected"
                    => mongoClient' = "null" /\ mongoDb' = "null"
          /\ \A c \in MongoCallers :
                (/\ callers[c].pc \in AwaitingConnection
                 /\ promises[callers[c].awaits] = "rejected"
                 /\ callers'[c] # callers[c])
                    => callers'[c].pc = "rejected"
          /\ \A c \in MongoCallers :
                EntersConnection(c) /\ InFlight = {}
                    => /\ promises' = Append(promises, "connecting")
                       /\ callers'[c].awaits = Len(promises')]_vars

\* two callers got the error of the first attempt, which both awaited, and
\* a third awaits the fresh attempt made after it
C30_Witness ==
    /\ Len(promises) = 2
    /\ promises[1] = "rejected"
    /\ mongoDb = "null"
    /\ \E a, b, c \in MongoCallers :
          /\ a # b
          /\ callers[a] = [pc |-> "rejected", awaits |-> 1]
          /\ callers[b] = [pc |-> "rejected", awaits |-> 1]
          /\ callers[c] = [pc |-> "awaiting", awaits |-> 2]
          /\ 2 \in InFlight

====
